---- MODULE Spec2Model ----
(***************************************************************************)
(* A model of mohae/linewrap.                                              *)
(*                                                                         *)
(*   - the token classifier (key, isSpace, isHyphen) and the lexer started *)
(*     by lex() (src/unnamed/part_001, second file of the part);           *)
(*   - Wrapper (src/unnamed/part_004, second file of the part), which      *)
(*     reads the lexer's channel;                                          *)
(*   - Wrap and Unwrap (src/linewrap.go).                                  *)
(*                                                                         *)
(* Text is modelled as Go holds it: a sequence of bytes (0..255), UTF-8    *)
(* encoded.  Positions are Go's 0-based byte offsets.                      *)
(***************************************************************************)
EXTENDS Integers, Sequences, FiniteSets, TLC

VARIABLES
    input,      \* the []byte handed to the running call
    lexer,      \* the *lexer of part_001: [state, pos, start, width, runeCnt, r, out]
    tokens,     \* the lexer's channel (chan token, capacity 2): tokens in flight
    closed,     \* the channel has been closed by run()
    emitted,    \* history: every token sent on the channel so far, in order
    got,        \* the tokens collect() (the lexer test's consumer) has received
    w,          \* the Wrapper of part_004
    tkn,        \* Wrapper.Bytes' local variable tkn
    pc,         \* where the caller of the Wrapper is: "idle", "loop", "done", "panic"
    ev,         \* history: what the Wrapper's last loop iteration did
    calls,      \* history: [in, b, err] of the calls that returned, in order
                \* (arr: the array of w.mem that b points into; Reset: ResetCalled)
    wr,         \* the Wrap of linewrap.go
    wpc,        \* where Wrap.Bytes is: "idle", "space", "word", "done"
    unwrapped,  \* the result of Unwrap on Wrap.Bytes' output, once computed
    cp          \* the code point handed to the classifiers

vars == <<input, lexer, tokens, closed, emitted, got, w, tkn, pc, ev, calls,
          wr, wpc, unwrapped, cp>>

lexVars == <<lexer, tokens, closed, emitted>>
wrapperVars == <<w, tkn, pc, ev, calls>>
wrapVars == <<wr, wpc, unwrapped>>

-----------------------------------------------------------------------------
(* Bounds of the model.                                                    *)

\* The longest input, in code points.
MaxLen == 3
\* The longest input of the lexer-only specification, in code points.
MaxLexLen == 4
\* The largest Length a Wrapper or a Wrap is configured with.
MaxLength == 5
\* The longest input of a call on a re-used Wrapper or Wrap, in code points.
MaxReuseLen == 2
\* The number of calls made on a re-used Wrapper or Wrap.
MaxCalls == 2

-----------------------------------------------------------------------------
(* Sequence helpers.                                                       *)

RECURSIVE Flatten(_)
Flatten(ss) == IF ss = <<>> THEN <<>> ELSE Head(ss) \o Flatten(Tail(ss))

\* Go's s[lo:hi] on a 0-based slice.
Slice(s, lo, hi) == SubSeq(s, lo + 1, hi)

\* All sequences over S of length at most n.
SeqsUpTo(S, n) == UNION {[1..k -> S] : k \in 0..n}

Count(s, x) == Cardinality({i \in 1..Len(s) : s[i] = x})

-----------------------------------------------------------------------------
(* UTF-8, as unicode/utf8 encodes and decodes it (code points below        *)
(* U+10000; no code point of the key table is above).                      *)

RuneError == 65533
eof == -1

EncodeRune(r) ==
    IF r < 128 THEN <<r>>
    ELSE IF r < 2048 THEN <<192 + (r \div 64), 128 + (r % 64)>>
    ELSE <<224 + (r \div 4096), 128 + ((r \div 64) % 64), 128 + (r % 64)>>

IsCont(b) == b >= 128 /\ b <= 191

\* utf8.DecodeRune(p): <<rune, width>>.  An empty p gives (RuneError, 0), a
\* malformed or truncated sequence gives (RuneError, 1).
DecodeRune(p) ==
    IF Len(p) = 0 THEN <<RuneError, 0>>
    ELSE LET b0 == p[1] IN
      IF b0 < 128 THEN <<b0, 1>>
      ELSE IF b0 >= 194 /\ b0 <= 223 THEN
        IF Len(p) >= 2 /\ IsCont(p[2])
        THEN <<(b0 - 192) * 64 + (p[2] - 128), 2>>
        ELSE <<RuneError, 1>>
      ELSE IF b0 >= 224 /\ b0 <= 239 THEN
        IF /\ Len(p) >= 3 /\ IsCont(p[2]) /\ IsCont(p[3])
           /\ (b0 = 224 => p[2] >= 160)
           /\ (b0 = 237 => p[2] <= 159)
        THEN <<(b0 - 224) * 4096 + (p[2] - 128) * 64 + (p[3] - 128), 3>>
        ELSE <<RuneError, 1>>
      ELSE <<RuneError, 1>>

\* The runes of a byte string, as `for _, v := range s` yields them.
RECURSIVE Runes(_)
Runes(p) ==
    IF p = <<>> THEN <<>>
    ELSE LET d == DecodeRune(p) IN <<d[1]>> \o Runes(SubSeq(p, d[2] + 1, Len(p)))

\* string(runes): the UTF-8 bytes of a rune sequence.
RECURSIVE EncodeRunes(_)
EncodeRunes(rs) ==
    IF rs = <<>> THEN <<>> ELSE EncodeRune(Head(rs)) \o EncodeRunes(Tail(rs))

-----------------------------------------------------------------------------
(* Code points and token types of part_001.                                *)

cr == 13
nl == 10
tab == 9
zeroWidthNoBreakSpace == 65279

tokenNone == 0
tokenError == 1
tokenEOF == 2
tokenText == 3
tokenZeroWidthNoBreakSpace == 4
tokenNL == 5
tokenCR == 6
tokenTab == 7
tokenSpace == 8
tokenOghamSpaceMark == 9
tokenMongolianVowelSeparator == 10
tokenEnQuad == 11
tokenEmQuad == 12
tokenEnSpace == 13
tokenEmSpace == 14
tokenThreePerEmSpace == 15
tokenFourPerEmSpace == 16
tokenSixPerEmSpace == 17
tokenFigureSpace == 18
tokenPunctuationSpace == 19
tokenThinSpace == 20
tokenHairSpace == 21
tokenZeroWidthSpace == 22
tokenMediumMathematicalSpace == 23
tokenIdeographicSpace == 24
tokenHyphenMinus == 25
tokenSoftHyphen == 26
tokenArmenianHyphen == 27
tokenHyphen == 28
tokenFigureDash == 29
tokenEnDash == 30
tokenEmDash == 31
tokenHorizontalBar == 32
tokenSwungDash == 33
tokenSuperscriptMinus == 34
tokenSubScriptMinus == 35
tokenTwoEmDash == 36
tokenThreeEmDash == 37
tokenPresentationFormForVerticalEmDash == 38
tokenPresentationFormForVerticalEnDash == 39
tokenSmallEmDash == 40
tokenSmallHyphenMinus == 41
tokenFullWidthHyphenMinus == 42

\* var key = map[string]tokenType{...}: <<code point, token type>>.
keyTable ==
    { <<13, tokenCR>>, <<10, tokenNL>>, <<9, tokenTab>>,
      <<65279, tokenZeroWidthNoBreakSpace>>,
      <<32, tokenSpace>>,                       \* U+0020
      <<5760, tokenOghamSpaceMark>>,            \* U+1680
      <<6158, tokenMongolianVowelSeparator>>,   \* U+180E
      <<8192, tokenEnQuad>>,                    \* U+2000
      <<8193, tokenEmQuad>>,                    \* U+2001
      <<8194, tokenEnSpace>>,                   \* U+2002
      <<8195, tokenEmSpace>>,                   \* U+2003
      <<8196, tokenThreePerEmSpace>>,           \* U+2004
      <<8197, tokenFourPerEmSpace>>,            \* U+2005
      <<8198, tokenSixPerEmSpace>>,             \* U+2006
      <<8199, tokenFigureSpace>>,               \* U+2007
      <<8200, tokenPunctuationSpace>>,          \* U+2008
      <<8201, tokenThinSpace>>,                 \* U+2009
      <<8202, tokenHairSpace>>,                 \* U+200A
      <<8203, tokenZeroWidthSpace>>,            \* U+200B
      <<8287, tokenMediumMathematicalSpace>>,   \* U+205F
      <<12288, tokenIdeographicSpace>>,         \* U+3000
      <<45, tokenHyphenMinus>>,                 \* U+002D
      <<173, tokenSoftHyphen>>,                 \* U+00AD
      <<1418, tokenArmenianHyphen>>,            \* U+058A
      <<8208, tokenHyphen>>,                    \* U+2010
      <<8210, tokenFigureDash>>,                \* U+2012
      <<8211, tokenEnDash>>,                    \* U+2013
      <<8212, tokenEmDash>>,                    \* U+2014
      <<8213, tokenHorizontalBar>>,             \* U+2015
      <<8275, tokenSwungDash>>,                 \* U+2053
      <<8315, tokenSuperscriptMinus>>,          \* U+207B
      <<8331, tokenSubScriptMinus>>,            \* U+208B
      <<11834, tokenTwoEmDash>>,                \* U+2E3A
      <<11835, tokenThreeEmDash>>,              \* U+2E3B
      <<65073, tokenPresentationFormForVerticalEmDash>>,  \* U+FE31
      <<65074, tokenPresentationFormForVerticalEnDash>>,  \* U+FE32
      <<65112, tokenSmallEmDash>>,              \* U+FE58
      <<65123, tokenSmallHyphenMinus>>,         \* U+FE63
      <<65293, tokenFullWidthHyphenMinus>> }    \* U+FF0D

\* _, ok := key[string(r)]
keyOk(r) == \E e \in keyTable : e[1] = r

\* key[string(r)]: the zero value, tokenNone, for a rune that is no key.
key(r) == IF keyOk(r) THEN (CHOOSE e \in keyTable : e[1] = r)[2] ELSE tokenNone

\* isSpace, were the zero width space no space.
isSpace_nozw(t) ==
    t >= tokenTab /\ t <= tokenIdeographicSpace /\ t # tokenZeroWidthSpace
\* isSpace(t tokenType) of part_001.
isSpace(t) == t >= tokenTab /\ t <= tokenIdeographicSpace

\* isHyphen, were the range to end before the superscript and subscript minus.
isHyphen_short(t) == t >= tokenHyphenMinus /\ t <= tokenSwungDash
\* isHyphen(t tokenType) of part_001.
isHyphen(t) == t >= tokenHyphenMinus /\ t <= tokenFullWidthHyphenMinus

-----------------------------------------------------------------------------
(* The lexer of part_001 (type lexer, started by lex()).  A token is       *)
(* [typ, pos, len, value].  The record's field out holds the token of a    *)
(* send on l.tokens that has not been taken by the channel yet: emit       *)
(* blocks there until the channel has room.                                *)

Token(t, p, n, v) == [typ |-> t, pos |-> p, len |-> n, value |-> v]

\* The zero value of token: Bytes' `var tkn token`.
ZeroToken == Token(tokenNone, 0, 0, <<>>)

\* A Wrapper's lexer field before lex() has set it (nil).
NoLexer ==
    [input |-> <<>>, state |-> "none", pos |-> 0, start |-> 0, width |-> 0,
     runeCnt |-> 0, out |-> <<>>]

\* lex(input): the lexer as constructed; `go l.run()` starts at lexText.
lex(in) ==
    [input |-> in, state |-> "lexText", pos |-> 0, start |-> 0, width |-> 0,
     runeCnt |-> 0, out |-> <<>>]

\* l.next(): <<the lexer after the call, the rune returned>>.
next(l) ==
    LET l1 == [l EXCEPT !.runeCnt = @ + 1] IN
    IF l.pos >= Len(l.input)
    THEN <<[l1 EXCEPT !.width = 0], eof>>
    ELSE LET d == DecodeRune(Slice(l.input, l.pos, Len(l.input))) IN
         <<[l1 EXCEPT !.width = d[2], !.pos = @ + d[2]], d[1]>>

\* l.backup()
backup(l) == [l EXCEPT !.pos = @ - l.width, !.runeCnt = @ - 1]

\* emit, were len the number of bytes of the value.
emit_bytes(l, t) ==
    [l EXCEPT !.out = Append(@, Token(t, l.start, l.pos - l.start,
                                      Slice(l.input, l.start, l.pos))),
              !.start = l.pos,
              !.runeCnt = 0]
\* l.emit(t)
emit(l, t) ==
    [l EXCEPT !.out = Append(@, Token(t, l.start, l.runeCnt,
                                      Slice(l.input, l.start, l.pos))),
              !.start = l.pos,
              !.runeCnt = 0]

\* ignore, were the pending bytes kept for the next token.
ignore_keep(l) == l
\* l.ignore()
ignore(l) == [l EXCEPT !.start = l.pos, !.runeCnt = 0]

\* l.atBreakPoint(): <<breakpoint, class>>.
atBreakPoint(l) ==
    LET r == DecodeRune(Slice(l.input, l.pos, Len(l.input)))[1]
        t == key(r)
    IN  IF ~keyOk(r) \/ t <= tokenZeroWidthNoBreakSpace THEN <<FALSE, "classText">>
        ELSE IF t = tokenCR THEN <<TRUE, "classCR">>
        ELSE IF t = tokenNL THEN <<TRUE, "classNL">>
        ELSE IF t = tokenTab THEN <<TRUE, "classTab">>
        ELSE IF isSpace(t) THEN <<TRUE, "classSpace">>
        ELSE IF isHyphen(t) THEN <<TRUE, "classHyphen">>
        ELSE <<FALSE, "classText">>

\* The state function lexText returns for a class.
stateOfClass(class) ==
    CASE class = "classCR" -> "lexCR"
      [] class = "classNL" -> "lexNL"
      [] class = "classSpace" -> "lexSpace"
      [] class = "classTab" -> "lexTab"
      [] class = "classHyphen" -> "lexHyphen"

\* lexText(l): the lexer when the state function returns (its sends in out).
\* The loop goes on with the lexer that next() left, taken as a value (the
\* one element of a set) so that it is computed once.
RECURSIVE lexText(_)
lexText(l) ==
    LET bp == atBreakPoint(l) IN
    IF bp[1]
    THEN LET l1 == IF l.pos > l.start THEN emit(l, tokenText) ELSE l
         IN  [l1 EXCEPT !.state = stateOfClass(bp[2])]
    ELSE LET n == next(l) IN
         IF n[2] = eof
         THEN LET l2 == [n[1] EXCEPT !.runeCnt = @ - 1]
                  l3 == IF l2.pos > l2.start THEN emit(l2, tokenText) ELSE l2
              IN  [emit(l3, tokenEOF) EXCEPT !.state = "nil"]
         ELSE CHOOSE r \in {lexText(v) : v \in {n[1]}} : TRUE

\* lexCR, were the carriage return emitted as a token in place of ignored.
lexCR_emit(l) ==
    LET n == next(l)
        t == key(n[2])
    IN  [(IF t = tokenCR THEN emit(n[1], tokenCR) ELSE n[1]) EXCEPT !.state = "lexText"]
\* lexCR(l)
lexCR(l) ==
    LET n == next(l)
        t == key(n[2])
    IN  [(IF t = tokenCR THEN ignore(n[1]) ELSE n[1]) EXCEPT !.state = "lexText"]

\* lexNL, were the line feed looked at with peek() and left in the input.
lexNL_peek(l) == [backup(next(l)[1]) EXCEPT !.state = "lexText"]
\* lexNL(l)
lexNL(l) ==
    LET n == next(l)
        t == key(n[2])
    IN  [(IF t = tokenNL THEN emit(n[1], tokenNL) ELSE n[1]) EXCEPT !.state = "lexText"]

\* lexTab(l)
lexTab(l) ==
    LET n == next(l)
        t == key(n[2])
    IN  [(IF t = tokenTab THEN emit(n[1], tokenTab) ELSE n[1]) EXCEPT !.state = "lexText"]

\* The scan loop of lexSpace: <<the lexer at the break, i>>.
RECURSIVE lexSpaceScan(_, _)
lexSpaceScan(l, i) ==
    LET n == next(l) IN
    IF ~isSpace(key(n[2])) THEN <<n[1], i>>
    ELSE CHOOSE r \in {lexSpaceScan(v, i + 1) : v \in {n[1]}} : TRUE

\* lexSpace(l)
lexSpace(l) ==
    LET s == lexSpaceScan(l, 0) IN
    IF s[2] = 0 THEN [s[1] EXCEPT !.state = "lexText"]
    ELSE [emit(backup(s[1]), tokenSpace) EXCEPT !.state = "lexText"]

\* The scan loop of lexHyphen: <<the lexer at the break, i>>.
RECURSIVE lexHyphenScan(_, _)
lexHyphenScan(l, i) ==
    LET n == next(l) IN
    IF ~isHyphen(key(n[2])) THEN <<n[1], i>>
    ELSE CHOOSE r \in {lexHyphenScan(v, i + 1) : v \in {n[1]}} : TRUE

\* lexHyphen(l)
lexHyphen(l) ==
    LET s == lexHyphenScan(l, 0) IN
    IF s[2] = 0 THEN [s[1] EXCEPT !.state = "lexText"]
    ELSE [emit(backup(s[1]), tokenHyphen) EXCEPT !.state = "lexText"]

(* The goroutine run(): one state function per step while no send is       *)
(* pending, one send per step, then close(l.tokens).                       *)

RunLexText ==
    /\ lexer.state = "lexText"
    /\ lexer.out = <<>>
    /\ lexer' = lexText(lexer)
    /\ UNCHANGED <<tokens, closed, emitted>>
    /\ UNCHANGED <<input, got, cp, wrapperVars, wrapVars>>

RunLexCR ==
    /\ lexer.state = "lexCR"
    /\ lexer.out = <<>>
    /\ lexer' = lexCR(lexer)
    /\ UNCHANGED <<tokens, closed, emitted>>
    /\ UNCHANGED <<input, got, cp, wrapperVars, wrapVars>>

RunLexNL ==
    /\ lexer.state = "lexNL"
    /\ lexer.out = <<>>
    /\ lexer' = lexNL(lexer)
    /\ UNCHANGED <<tokens, closed, emitted>>
    /\ UNCHANGED <<input, got, cp, wrapperVars, wrapVars>>

RunLexTab ==
    /\ lexer.state = "lexTab"
    /\ lexer.out = <<>>
    /\ lexer' = lexTab(lexer)
    /\ UNCHANGED <<tokens, closed, emitted>>
    /\ UNCHANGED <<input, got, cp, wrapperVars, wrapVars>>

RunLexSpace ==
    /\ lexer.state = "lexSpace"
    /\ lexer.out = <<>>
    /\ lexer' = lexSpace(lexer)
    /\ UNCHANGED <<tokens, closed, emitted>>
    /\ UNCHANGED <<input, got, cp, wrapperVars, wrapVars>>

RunLexHyphen ==
    /\ lexer.state = "lexHyphen"
    /\ lexer.out = <<>>
    /\ lexer' = lexHyphen(lexer)
    /\ UNCHANGED <<tokens, closed, emitted>>
    /\ UNCHANGED <<input, got, cp, wrapperVars, wrapVars>>

\* The capacity of l.tokens: make(chan token, 2).
ChanCap == 2

\* The send, were the channel a stack: the token goes in front of the ones
\* that wait.
Send_lifo ==
    /\ lexer.out # <<>>
    /\ Len(tokens) < ChanCap
    /\ tokens' = <<Head(lexer.out)>> \o tokens
    /\ emitted' = Append(emitted, Head(lexer.out))
    /\ lexer' = [lexer EXCEPT !.out = Tail(@)]
    /\ UNCHANGED closed
    /\ UNCHANGED <<input, got, cp, wrapperVars, wrapVars>>
\* l.tokens <- token: the pending send completes when the channel has room.
Send ==
    /\ lexer.out # <<>>
    /\ Len(tokens) < ChanCap
    /\ tokens' = Append(tokens, Head(lexer.out))
    /\ emitted' = Append(emitted, Head(lexer.out))
    /\ lexer' = [lexer EXCEPT !.out = Tail(@)]
    /\ UNCHANGED closed
    /\ UNCHANGED <<input, got, cp, wrapperVars, wrapVars>>

\* close(l.tokens), after the state function returned nil.
Close ==
    /\ lexer.state = "nil"
    /\ lexer.out = <<>>
    /\ closed' = TRUE
    /\ lexer' = [lexer EXCEPT !.state = "exited"]
    /\ UNCHANGED <<tokens, emitted>>
    /\ UNCHANGED <<input, got, cp, wrapperVars, wrapVars>>

\* l.nextToken() can return: the channel holds a token.
CanReceive == tokens # <<>>

-----------------------------------------------------------------------------
(* The rune classifiers of linewrap.go (its isSpace and isHyphen, here     *)
(* isSpaceRune and isHyphenRune: part_001 has the names for token types).  *)

\* unicode.IsSpace: the Latin-1 spaces and the White_Space property.
unicodeIsSpace(r) ==
    \/ r \in {9, 10, 11, 12, 13, 32, 133, 160}
    \/ r \in {5760, 8232, 8233, 8239, 8287, 12288}
    \/ r >= 8192 /\ r <= 8202

\* isSpace(r rune) of linewrap.go
isSpaceRune(r) ==
    IF r = 8203 THEN TRUE
    ELSE IF r = 160 \/ r = 8239 THEN FALSE
    ELSE unicodeIsSpace(r)

\* unicode.Dash.R16, the table isHyphen searches with is16: the code points
\* up to U+FF0D with the Dash property.
unicodeDash ==
    {45, 1418, 1470, 5120, 6150, 8208, 8209, 8210, 8211, 8212, 8213, 8275,
     8315, 8331, 8722, 11799, 11802, 11834, 11835, 11840, 12316, 12336,
     12448, 65073, 65074, 65112, 65123, 65293}

\* isHyphen, were the Latin-1 switch missing and only unicode.Dash searched.
isHyphenRune_dash(r) ==
    IF r \in {8209, 8315, 8331} THEN FALSE ELSE r \in unicodeDash
\* isHyphen(r rune) of linewrap.go
isHyphenRune(r) ==
    IF r <= 255 THEN r \in {45, 126, 173}
    ELSE IF r \in {8209, 8315, 8331} THEN FALSE
    ELSE r \in unicodeDash

-----------------------------------------------------------------------------
(* Wrapper of part_004.  w is [Length, tabSize, indentText, indentLen,     *)
(* CommentStyle, priorToken, l, b]; its lexer field is the variable lexer. *)
(* A Go panic (a slice or index expression out of range) is the result     *)
(* field panic.                                                            *)

cppComment == <<47, 47, 32>>     \* "// "
shellComment == <<35, 32>>       \* "# "
cCommentBegin == <<47, 42, 10>>  \* "/*\n"
cCommentEnd == <<42, 47, 10>>    \* "*/\n"

\* w.setIndentLen(): adds the width of indentText to indentLen.
RECURSIVE setIndentLenFrom(_, _, _)
setIndentLenFrom(text, tabSize, n) ==
    IF text = <<>> THEN n
    ELSE setIndentLenFrom(Tail(text), tabSize,
                          IF Head(text) = tab THEN n + tabSize ELSE n + 1)

setIndentLen(x) ==
    [x EXCEPT !.indentLen = setIndentLenFrom(x.indentText, x.tabSize, x.indentLen)]

\* w.TabSize(i)
TabSize(x, i) == setIndentLen([x EXCEPT !.tabSize = i])

\* w.IndentText(s)
IndentText(x, s) ==
    IF s = <<>> THEN [x EXCEPT !.indentLen = 0, !.indentText = <<>>]
    ELSE setIndentLen([x EXCEPT !.indentLen = 0, !.indentText = s])

\* New(): Length and tabSize are the defaults; every other field is zero.
LineLength == 80
DefaultTabSize == 8
New ==
    [Length |-> LineLength, tabSize |-> DefaultTabSize, indentText |-> <<>>,
     indentLen |-> 0, CommentStyle |-> "NoComment", priorToken |-> ZeroToken,
     l |-> 0, b |-> <<>>, mem |-> <<>>]

\* w.b is a slice: x.b holds its bytes, x.mem the arrays it has pointed
\* into, oldest first, each in its whole capacity.  The last array of x.mem
\* is the one w.b points into now (x.b is its first Len(x.b) bytes); with
\* x.mem empty w.b is nil.  An array that w.b has left is written no more.
capOf(x) == IF x.mem = <<>> THEN 0 ELSE Len(x.mem[Len(x.mem)])

Zeros(n) == [i \in 1..n |-> 0]

\* The size classes of the allocator up to 128 bytes.
SizeClasses == {8, 16, 24, 32, 48, 64, 80, 96, 112, 128}

roundupsize(n) ==
    IF \E c \in SizeClasses : c >= n
    THEN CHOOSE c \in SizeClasses : c >= n /\ \A d \in SizeClasses : d >= n => c <= d
    ELSE n

\* The capacity append gives the new array when needed bytes do not fit in
\* old: twice the old one, or needed if that is more, rounded up to a size
\* class (the rule of the gc runtime for slices shorter than 256).
growCap(old, needed) == roundupsize(IF needed > 2 * old THEN needed ELSE 2 * old)

\* w.b = make([]byte, 0, n) when w.b == nil
makeIfNil(x, n) == IF x.mem = <<>> THEN [x EXCEPT !.mem = <<Zeros(n)>>] ELSE x

\* w.b = append(w.b, p...): in place when p fits in the capacity, else in a
\* new array that holds a copy of w.b.
append(x, p) ==
    LET n == Len(x.b)
        m == Len(x.mem)
    IN  IF p = <<>> THEN x
        ELSE IF n + Len(p) <= capOf(x)
        THEN [x EXCEPT !.b = @ \o p,
                       !.mem[m] = [i \in 1..Len(@) |->
                                      IF i > n /\ i <= n + Len(p) THEN p[i - n] ELSE @[i]]]
        ELSE LET c == growCap(capOf(x), n + Len(p)) IN
             [x EXCEPT !.b = @ \o p,
                       !.mem = Append(@, x.b \o p \o Zeros(c - n - Len(p)))]

\* w.cppComment()
cppCommentPrefix(x) == [append(x, cppComment) EXCEPT !.l = 3]

\* w.shellComment()
shellCommentPrefix(x) == [append(x, shellComment) EXCEPT !.l = 2]

\* w.lineComment(): <<the Wrapper after the call, the bool returned>>.
lineComment(x) ==
    CASE x.CommentStyle = "CPPComment" -> <<cppCommentPrefix(x), TRUE>>
      [] x.CommentStyle = "ShellComment" -> <<shellCommentPrefix(x), TRUE>>
      [] OTHER -> <<x, FALSE>>

\* w.commentBegin()
commentBegin(x) ==
    CASE x.CommentStyle = "NoComment" -> x
      [] x.CommentStyle \in {"CPPComment", "ShellComment"} -> lineComment(x)[1]
      [] x.CommentStyle = "CComment" -> append(x, cCommentBegin)

\* w.commentEnd()
commentEnd(x) ==
    IF x.CommentStyle = "CComment" THEN append(x, cCommentEnd) ELSE x

\* w.cleanBlankCPPCommentLine(): [w, panic].  w.b[len(w.b)-k] panics when
\* len(w.b) < k; && evaluates its right operand only when the left holds.
cleanBlankCPPCommentLine(x) ==
    LET n == Len(x.b) IN
    IF n < 1 THEN [w |-> x, panic |-> TRUE]
    ELSE IF x.b[n] # 32 THEN [w |-> x, panic |-> FALSE]
    ELSE IF n < 2 THEN [w |-> x, panic |-> TRUE]
    ELSE IF x.b[n - 1] # 47 THEN [w |-> x, panic |-> FALSE]
    ELSE IF n < 3 THEN [w |-> x, panic |-> TRUE]
    ELSE IF x.b[n - 2] # 47 THEN [w |-> x, panic |-> FALSE]
    ELSE [w |-> [x EXCEPT !.b = Slice(@, 0, n - 1)], panic |-> FALSE]

\* w.cleanBlankShellCommentLine(): [w, panic].
cleanBlankShellCommentLine(x) ==
    LET n == Len(x.b) IN
    IF n < 1 THEN [w |-> x, panic |-> TRUE]
    ELSE IF x.b[n] # 32 THEN [w |-> x, panic |-> FALSE]
    ELSE IF n < 2 THEN [w |-> x, panic |-> TRUE]
    ELSE IF x.b[n - 1] # 35 THEN [w |-> x, panic |-> FALSE]
    ELSE [w |-> [x EXCEPT !.b = Slice(@, 0, n - 1)], panic |-> FALSE]

\* w.cleanBlankCommentLine(): [w, panic].
cleanBlankCommentLine(x) ==
    CASE x.CommentStyle = "CPPComment" -> cleanBlankCPPCommentLine(x)
      [] x.CommentStyle = "ShellComment" -> cleanBlankShellCommentLine(x)
      [] OTHER -> [w |-> x, panic |-> FALSE]

\* nlRetract, were a prior tab cut like a prior space.
nlRetract_tab(x) ==
    IF x.priorToken.typ \in {tokenSpace, tokenTab} THEN Len(x.priorToken.value) ELSE 0
\* The bytes w.nl() cuts from the end of w.b for the prior token.
nlRetract(x) ==
    IF x.priorToken.typ = tokenSpace THEN Len(x.priorToken.value) ELSE 0

\* The rest of w.nl(), once the prior space has been cut: the break, the
\* comment prefix or the indent.
nlBreak(x) ==
    LET x2 == [append(x, <<nl>>) EXCEPT !.l = 0]
        lc == lineComment(x2)
    IN  IF lc[2] THEN lc[1]
        ELSE IF x2.indentLen > 0
        THEN [append(x2, x2.indentText) EXCEPT !.l = @ + x2.indentLen]
        ELSE x2

\* w.nl(): [w, panic].  w.b[:len(w.b)-len(w.priorToken.value)] panics when
\* the prior token's value is longer than w.b.
wnl(x) ==
    LET k == nlRetract(x) IN
    IF k > Len(x.b) THEN [w |-> x, panic |-> TRUE]
    ELSE LET x1 == [x EXCEPT !.b = Slice(@, 0, Len(@) - k)]
             c == cleanBlankCommentLine(x1)
         IN  IF c.panic THEN c ELSE [w |-> nlBreak(c.w), panic |-> FALSE]

\* wrapFits, were the comparison > in place of >=.
wrapFits_gt(x, t) == x.l + t.len <= x.Length
\* The comparison of w.wrap(): no new line is going to be emitted.
wrapFits(x, t) == x.l + t.len < x.Length

\* wrap, were no line ever broken.
wrap_never(x, t) ==
    [w |-> x, t |-> IF t.typ = tokenTab THEN [t EXCEPT !.len = x.tabSize] ELSE t,
     skip |-> FALSE, broke |-> FALSE, panic |-> FALSE]
\* w.wrap(t): [w, t, skip, broke, panic]; t's len is set for a tab.
wrap(x, t) ==
    LET t1 == IF t.typ = tokenTab THEN [t EXCEPT !.len = x.tabSize] ELSE t IN
    IF wrapFits(x, t1)
    THEN [w |-> x, t |-> t1, skip |-> FALSE, broke |-> FALSE, panic |-> FALSE]
    ELSE LET r == wnl(x) IN
         [w |-> r.w, t |-> t1, skip |-> isSpace(t1.typ), broke |-> TRUE,
          panic |-> r.panic]

\* token.String()
TokenString(t) == IF t.typ = tokenEOF THEN <<69, 79, 70>> ELSE t.value

\* What one iteration of Bytes' loop did, for the properties.
Event(kind, t, x, broke, wrote, cut) ==
    [kind |-> kind, tok |-> t, col |-> x.l, Length |-> x.Length,
     broke |-> broke, wrote |-> wrote, cut |-> cut,
     priorWrote |-> IF ev.kind = "none" THEN FALSE ELSE ev.wrote,
     blen |-> Len(x.b)]

NoEvent == [kind |-> "none"]

\* BytesCall, were there no test of len(s) == 0.
BytesCall_always(s) ==
    /\ pc \in {"idle", "done"}
    /\ input' = s
    /\ ev' = NoEvent
    /\ w' = commentBegin(makeIfNil(w, Len(s)))
    /\ tkn' = ZeroToken
    /\ lexer' = lex(s)
    /\ tokens' = <<>>
    /\ closed' = FALSE
    /\ emitted' = <<>>
    /\ pc' = "loop"
    /\ UNCHANGED calls
    /\ UNCHANGED <<got, cp, wrapVars>>
\* Bytes(s) up to the loop: the short-circuit, commentBegin, lex(s).
BytesCall(s) ==
    /\ pc \in {"idle", "done"}
    /\ input' = s
    /\ ev' = NoEvent
    /\ IF Len(s) = 0
       THEN /\ pc' = "done"
            /\ calls' = Append(calls, [in |-> s, b |-> s, err |-> FALSE])
            /\ UNCHANGED <<w, tkn, lexer, tokens, closed, emitted>>
       ELSE /\ w' = commentBegin(makeIfNil(w, Len(s)))
            /\ tkn' = ZeroToken
            /\ lexer' = lex(s)
            /\ tokens' = <<>>
            /\ closed' = FALSE
            /\ emitted' = <<>>
            /\ pc' = "loop"
            /\ UNCHANGED calls
    /\ UNCHANGED <<got, cp, wrapVars>>

\* The iteration of Bytes' loop that ends the call: tokenEOF breaks the
\* loop (commentEnd, return w.b, nil), tokenError returns w.b and the token.
BytesReturn ==
    /\ pc = "loop"
    /\ CanReceive
    /\ Head(tokens).typ \in {tokenEOF, tokenError}
    /\ LET x == [w EXCEPT !.priorToken = tkn]
           y == IF Head(tokens).typ = tokenEOF THEN commentEnd(x) ELSE x
       IN  /\ w' = y
           /\ calls' = Append(calls, [in |-> input, b |-> y.b,
                                      err |-> Head(tokens).typ = tokenError,
                                      arr |-> Len(y.mem)])
    /\ ev' = Event("return", Head(tokens), w, FALSE, FALSE, 0)
    /\ tkn' = Head(tokens)
    /\ tokens' = Tail(tokens)
    /\ pc' = "done"
    /\ UNCHANGED <<input, lexer, closed, emitted>>
    /\ UNCHANGED <<got, cp, wrapVars>>

\* The iteration that receives a tokenSpace right after a tokenNL: continue.
BytesSkipSpace ==
    /\ pc = "loop"
    /\ CanReceive
    /\ Head(tokens).typ = tokenSpace
    /\ tkn.typ = tokenNL
    /\ w' = [w EXCEPT !.priorToken = tkn]
    /\ ev' = Event("skip", Head(tokens), w, FALSE, FALSE, 0)
    /\ tkn' = Head(tokens)
    /\ tokens' = Tail(tokens)
    /\ UNCHANGED <<input, lexer, closed, emitted, pc, calls>>
    /\ UNCHANGED <<got, cp, wrapVars>>

\* The iteration that receives a tokenNL: w.nl(); continue.
BytesNL ==
    /\ pc = "loop"
    /\ CanReceive
    /\ Head(tokens).typ = tokenNL
    /\ LET x == [w EXCEPT !.priorToken = tkn]
           r == wnl(x)
       IN  /\ w' = r.w
           /\ pc' = IF r.panic THEN "panic" ELSE "loop"
           /\ ev' = Event("nl", Head(tokens), w, TRUE, FALSE, nlRetract(x))
    /\ tkn' = Head(tokens)
    /\ tokens' = Tail(tokens)
    /\ UNCHANGED <<input, lexer, closed, emitted, calls>>
    /\ UNCHANGED <<got, cp, wrapVars>>

\* Every other iteration: skip = w.wrap(&tkn), then the token is appended
\* unless skip.
BytesWrap ==
    /\ pc = "loop"
    /\ CanReceive
    /\ Head(tokens).typ \notin {tokenEOF, tokenNL, tokenError}
    /\ ~(Head(tokens).typ = tokenSpace /\ tkn.typ = tokenNL)
    /\ LET x == [w EXCEPT !.priorToken = tkn]
           r == wrap(x, Head(tokens))
       IN  /\ w' = IF r.panic \/ r.skip THEN r.w
                   ELSE [append(r.w, TokenString(r.t)) EXCEPT !.l = @ + r.t.len]
           /\ tkn' = r.t
           /\ pc' = IF r.panic THEN "panic" ELSE "loop"
           /\ ev' = Event("wrap", r.t, w, r.broke, ~r.panic /\ ~r.skip,
                          IF r.broke THEN nlRetract(x) ELSE 0)
    /\ tokens' = Tail(tokens)
    /\ UNCHANGED <<input, lexer, closed, emitted, calls>>
    /\ UNCHANGED <<got, cp, wrapVars>>

\* The entry of calls for a call of Reset.
ResetCalled == [reset |-> TRUE]

\* Reset() that leaves w.l as it is.
Reset_keepl ==
    /\ pc \in {"idle", "done"}
    /\ w' = [w EXCEPT !.b = <<>>]
    /\ lexer' = NoLexer
    /\ calls' = Append(calls, ResetCalled)
    /\ UNCHANGED <<input, tokens, closed, emitted, tkn, pc, ev>>
    /\ UNCHANGED <<got, cp, wrapVars>>
\* w.Reset(): w.b = w.b[:0] keeps the array w.b points into.
Reset ==
    /\ pc \in {"idle", "done"}
    /\ w' = [w EXCEPT !.b = <<>>, !.l = 0]
    /\ lexer' = NoLexer
    /\ calls' = Append(calls, ResetCalled)
    /\ UNCHANGED <<input, tokens, closed, emitted, tkn, pc, ev>>
    /\ UNCHANGED <<got, cp, wrapVars>>

-----------------------------------------------------------------------------
(* Wrap of linewrap.go.  wr is [Length, TabSize, Indent, IndentVal,        *)
(* Unwrappable, indentLen, NewLine, newLine, lineComment, r, runes, newNL, *)
(* buf, l, space]: r is the bytes.Reader as [s, i] (its bytes and its read *)
(* offset), runes a sequence of code points, buf the bytes written, space  *)
(* Bytes' local variable.  NewLine, newLine and IndentVal are byte strings.*)

zeroNBSP == 65279
lf == 10
CommentPrefix == <<47, 47, 32>>   \* "// "

WrapLineLength == 80
WrapTabSize == 5

\* New() of linewrap.go
NewWrap ==
    [Length |-> WrapLineLength, TabSize |-> WrapTabSize, Indent |-> FALSE,
     IndentVal |-> <<>>, Unwrappable |-> FALSE, indentLen |-> 0,
     NewLine |-> <<lf>>, newLine |-> <<lf>>, lineComment |-> FALSE,
     r |-> [s |-> <<>>, i |-> 0], runes |-> <<>>, newNL |-> FALSE,
     buf |-> <<>>, l |-> 0, space |-> TRUE]

\* w.LineComment(b)
LineComment(x, b) ==
    IF b THEN [x EXCEPT !.Indent = TRUE, !.IndentVal = CommentPrefix, !.lineComment = b]
    ELSE [x EXCEPT !.lineComment = b]

\* w.reset(v)
reset(x, v) == [x EXCEPT !.r = [s |-> v, i |-> 0], !.buf = <<>>, !.runes = <<>>]

\* The loop of Bytes that adds the width of IndentVal to indentLen.
RECURSIVE indentWidth(_, _, _)
indentWidth(rs, tabSize, n) ==
    IF rs = <<>> THEN n
    ELSE indentWidth(Tail(rs), tabSize, IF Head(rs) = tab THEN n + tabSize ELSE n + 1)

\* writeNewLine, were the break written without its U+FEFF mark.
writeNewLine_unmarked(x) ==
    LET x1 == [x EXCEPT !.l = 0, !.newNL = TRUE, !.buf = @ \o x.NewLine] IN
    IF x.Indent THEN [x1 EXCEPT !.buf = @ \o x.IndentVal, !.l = x.indentLen] ELSE x1
\* w.writeNewLine()
writeNewLine(x) ==
    LET x1 == [x EXCEPT !.l = 0, !.newNL = TRUE, !.buf = @ \o x.newLine] IN
    IF x.Indent THEN [x1 EXCEPT !.buf = @ \o x.IndentVal, !.l = x.indentLen] ELSE x1

\* w.word(): <<the Wrap after the call, the call returned io.EOF>>.
RECURSIVE word(_)
word(x) ==
    IF x.r.i >= Len(x.r.s) THEN <<x, TRUE>>
    ELSE LET d == DecodeRune(Slice(x.r.s, x.r.i, Len(x.r.s))) IN
         IF isSpaceRune(d[1]) THEN <<x, FALSE>>
         ELSE LET x1 == [x EXCEPT !.r.i = @ + d[2], !.runes = Append(@, d[1])] IN
              IF isHyphenRune(d[1]) THEN <<x1, FALSE>> ELSE word(x1)

\* w.spaces(): <<the Wrap after the call, the call returned io.EOF>>.
RECURSIVE spaces(_)
spaces(x) ==
    IF x.r.i >= Len(x.r.s) THEN <<x, TRUE>>
    ELSE LET d == DecodeRune(Slice(x.r.s, x.r.i, Len(x.r.s))) IN
         IF ~isSpaceRune(d[1]) /\ ~isHyphenRune(d[1]) THEN <<x, FALSE>>
         ELSE spaces([x EXCEPT !.r.i = @ + d[2], !.runes = Append(@, d[1])])

\* The range loop of processSpaceChunk over the runes rs still to come:
\* [w, runes, nl], runes and nl being its local variables.
RECURSIVE spaceChunkLoop(_, _, _, _)
spaceChunkLoop(x, rs, runes, sawNL) ==
    IF rs = <<>> THEN [w |-> x, runes |-> runes, nl |-> sawNL]
    ELSE IF Head(rs) = 13 THEN spaceChunkLoop(x, Tail(rs), runes, sawNL)
    ELSE IF Head(rs) # 10 THEN spaceChunkLoop(x, Tail(rs), Append(runes, Head(rs)), sawNL)
    ELSE LET x1 == IF Len(runes) > 0 THEN [x EXCEPT !.buf = @ \o EncodeRunes(runes)] ELSE x IN
         IF x.Unwrappable
         THEN spaceChunkLoop([x1 EXCEPT !.buf = @ \o x.NewLine, !.l = 0], Tail(rs), <<>>, TRUE)
         ELSE spaceChunkLoop(writeNewLine(x1), Tail(rs), <<>>, TRUE)

\* processSpaceChunk, were the width test made also for a chunk that has a
\* newline.
processSpaceChunk_nospill(x) ==
    LET r == spaceChunkLoop(x, x.runes, <<>>, FALSE)
        breaks == r.w.l + Len(r.runes) >= r.w.Length
        x1 == IF breaks THEN writeNewLine(r.w) ELSE r.w
    IN  IF breaks /\ x1.Indent THEN x1
        ELSE IF x1.newNL /\ x1.Indent THEN [x1 EXCEPT !.newNL = FALSE]
        ELSE IF Len(r.runes) > 0
             THEN [x1 EXCEPT !.newNL = FALSE, !.buf = @ \o EncodeRunes(r.runes),
                             !.l = @ + Len(r.runes)]
             ELSE [x1 EXCEPT !.newNL = FALSE]
\* w.processSpaceChunk()
processSpaceChunk(x) ==
    LET r == spaceChunkLoop(x, x.runes, <<>>, FALSE)
        breaks == ~r.nl /\ r.w.l + Len(r.runes) >= r.w.Length
        x1 == IF breaks THEN writeNewLine(r.w) ELSE r.w
    IN  IF breaks /\ x1.Indent THEN x1
        ELSE IF x1.newNL /\ x1.Indent THEN [x1 EXCEPT !.newNL = FALSE]
        ELSE IF Len(r.runes) > 0
             THEN [x1 EXCEPT !.newNL = FALSE, !.buf = @ \o EncodeRunes(r.runes),
                             !.l = @ + Len(r.runes)]
             ELSE [x1 EXCEPT !.newNL = FALSE]

\* Unwrap's range loop over the runes rs still to come, b written so far.
RECURSIVE unwrapLoop(_, _, _)
unwrapLoop(rs, b, elide) ==
    IF rs = <<>> THEN b
    ELSE LET v == Head(rs) IN
         IF v = zeroNBSP THEN unwrapLoop(Tail(rs), b, TRUE)
         ELSE IF elide /\ v = 13 THEN unwrapLoop(Tail(rs), b, TRUE)
         ELSE IF elide /\ v = lf THEN unwrapLoop(Tail(rs), b, FALSE)
         ELSE IF elide
              THEN unwrapLoop(Tail(rs), b \o EncodeRune(zeroNBSP) \o EncodeRune(v), FALSE)
              ELSE unwrapLoop(Tail(rs), b \o EncodeRune(v), FALSE)

\* Unwrap(s)
Unwrap(s) == unwrapLoop(Runes(s), <<>>, FALSE)

\* w.Bytes(s) up to its loop: the short-circuit, reset, newLine, indentLen,
\* the comment prefix of the first line.
WrapBytesCall(s) ==
    /\ wpc \in {"idle", "done"}
    /\ input' = s
    /\ IF Len(s) = 0
       THEN /\ wpc' = "done"
            /\ calls' = Append(calls, [in |-> s, b |-> s, err |-> FALSE])
            /\ UNCHANGED wr
       ELSE /\ LET x1 == reset(wr, s)
                   x2 == [x1 EXCEPT !.newLine = IF x1.Unwrappable
                                                THEN EncodeRune(zeroNBSP) \o x1.NewLine
                                                ELSE x1.NewLine]
                   x3 == IF x2.Indent
                         THEN [x2 EXCEPT !.indentLen =
                                  indentWidth(Runes(x2.IndentVal), x2.TabSize, @)]
                         ELSE x2
                   x4 == IF x3.lineComment
                         THEN [x3 EXCEPT !.buf = @ \o CommentPrefix, !.l = Len(CommentPrefix)]
                         ELSE x3
               IN  wr' = [x4 EXCEPT !.space = TRUE]
            /\ wpc' = "loop"
            /\ UNCHANGED calls
    /\ UNCHANGED <<unwrapped, got, cp, lexVars, w, tkn, pc, ev>>

\* One iteration of Bytes' loop for a chunk of spaces: spaces(),
\* processSpaceChunk(), the tabs added to the line length.
WrapSpaceChunk ==
    /\ wpc = "loop"
    /\ wr.space = FALSE
    /\ LET x0 == [wr EXCEPT !.runes = <<>>, !.space = TRUE]
           x1 == spaces(x0)[1]
           x2 == processSpaceChunk(x1)
       IN  wr' = [x2 EXCEPT !.l = @ + x2.TabSize * Count(x2.runes, tab)]
    /\ UNCHANGED <<input, wpc, calls, unwrapped, got, cp, lexVars, w, tkn, pc, ev>>

\* One iteration of Bytes' loop for a chunk of non-space code points:
\* word(), the break if the chunk does not fit, the chunk; return on io.EOF.
WrapWordChunk ==
    /\ wpc = "loop"
    /\ wr.space = TRUE
    /\ LET x0 == [wr EXCEPT !.runes = <<>>, !.space = FALSE, !.newNL = FALSE]
           rd == word(x0)
           x1 == rd[1]
           x2 == IF x1.l + Len(x1.runes) >= x1.Length
                 THEN [writeNewLine(x1) EXCEPT !.newNL = FALSE]
                 ELSE x1
           x3 == [x2 EXCEPT !.buf = @ \o EncodeRunes(x2.runes)]
       IN  IF rd[2]
           THEN /\ wr' = x3
                /\ wpc' = "done"
                /\ calls' = Append(calls, [in |-> input, b |-> x3.buf, err |-> FALSE])
           ELSE /\ wr' = [x3 EXCEPT !.l = @ + Len(x3.runes)]
                /\ UNCHANGED <<wpc, calls>>
    /\ UNCHANGED <<input, unwrapped, got, cp, lexVars, w, tkn, pc, ev>>

\* The caller hands the output of the last call to Unwrap.
CallUnwrap ==
    /\ wpc = "done"
    /\ calls # <<>>
    /\ unwrapped' = Unwrap(calls[Len(calls)].b)
    /\ wpc' = "unwrapped"
    /\ UNCHANGED <<input, wr, calls, got, cp, lexVars, w, tkn, pc, ev>>

-----------------------------------------------------------------------------
(* Initial values of the parts a specification leaves alone.               *)

NoWrapper ==
    /\ w = New
    /\ tkn = ZeroToken
    /\ pc = "idle"
    /\ ev = NoEvent
    /\ calls = <<>>

NoLex ==
    /\ lexer = NoLexer
    /\ tokens = <<>>
    /\ closed = FALSE
    /\ emitted = <<>>

NoWrap ==
    /\ wr = NewWrap
    /\ wpc = "idle"
    /\ unwrapped = <<>>

InputsOver(A, n) == {EncodeRunes(s) : s \in SeqsUpTo(A, n)}

-----------------------------------------------------------------------------
(* SpecLex: the lexer on its own, read by collect() of the lexer test.     *)

\* The code points of the inputs: a, space, tab, \n, \r, - and U+2001 (EM
\* QUAD, a space of 3 bytes).
Alphabet == {97, 32, 9, 10, 13, 45, 8193}

InitLex ==
    /\ input \in InputsOver(Alphabet, MaxLexLen)
    /\ lexer = lex(input)
    /\ tokens = <<>>
    /\ closed = FALSE
    /\ emitted = <<>>
    /\ got = <<>>
    /\ cp = 0
    /\ NoWrapper
    /\ NoWrap

\* collect(): nextToken until EOF or an error token.
Collect ==
    /\ CanReceive
    /\ IF got = <<>> THEN TRUE ELSE got[Len(got)].typ \notin {tokenEOF, tokenError}
    /\ got' = Append(got, Head(tokens))
    /\ tokens' = Tail(tokens)
    /\ UNCHANGED <<input, lexer, closed, emitted, cp, wrapperVars, wrapVars>>

NextLex ==
    \/ RunLexText
    \/ RunLexCR
    \/ RunLexNL
    \/ RunLexTab
    \/ RunLexSpace
    \/ RunLexHyphen
    \/ Send
    \/ Close
    \/ Collect

SpecLex == InitLex /\ [][NextLex]_vars

-----------------------------------------------------------------------------
(* Spec: one Bytes call on a Wrapper that was made by New() and configured *)
(* the way TestWrapLine configures it (Length, TabSize(i), IndentText(s),  *)
(* CommentStyle), with the lexer goroutine running beside it.              *)

Lengths == 1..MaxLength
TabSizes == {2}
IndentTexts == {<<>>, <<32>>}
CommentStyles == {"NoComment", "CPPComment", "ShellComment", "CComment"}

Configured(len, ts, it, cs) ==
    [IndentText(TabSize([New EXCEPT !.Length = len], ts), it)
        EXCEPT !.CommentStyle = cs]

Init ==
    /\ \E len \in Lengths, ts \in TabSizes, it \in IndentTexts, cs \in CommentStyles :
          w = Configured(len, ts, it, cs)
    /\ tkn = ZeroToken
    /\ pc = "idle"
    /\ ev = NoEvent
    /\ calls = <<>>
    /\ input = <<>>
    /\ got = <<>>
    /\ cp = 0
    /\ NoLex
    /\ NoWrap

\* The caller's one call.
Call == \E s \in InputsOver(Alphabet, MaxLen) : calls = <<>> /\ pc = "idle" /\ BytesCall(s)

Next ==
    \/ Call
    \/ RunLexText
    \/ RunLexCR
    \/ RunLexNL
    \/ RunLexTab
    \/ RunLexSpace
    \/ RunLexHyphen
    \/ Send
    \/ Close
    \/ BytesReturn
    \/ BytesSkipSpace
    \/ BytesNL
    \/ BytesWrap

Spec == Init /\ [][Next]_vars

-----------------------------------------------------------------------------
(* Properties of one Bytes call (Spec).                                    *)

RECURSIVE IsSubseq(_, _)
IsSubseq(a, b) ==
    IF a = <<>> THEN TRUE
    ELSE IF b = <<>> THEN FALSE
    ELSE IF Head(a) = Head(b) THEN IsSubseq(Tail(a), Tail(b))
    ELSE IsSubseq(a, Tail(b))

\* The lines of a byte string: the pieces between its '\n' bytes.
RECURSIVE SplitLines(_, _)
SplitLines(p, cur) ==
    IF p = <<>> THEN <<cur>>
    ELSE IF Head(p) = nl THEN <<cur>> \o SplitLines(Tail(p), <<>>)
    ELSE SplitLines(Tail(p), Append(cur, Head(p)))

Lines(p) == SplitLines(p, <<>>)

\* Display width: one column per code point, tabSize columns per tab.
RECURSIVE WidthOfRunes(_, _)
WidthOfRunes(rs, tabSize) ==
    IF rs = <<>> THEN 0
    ELSE (IF Head(rs) = tab THEN tabSize ELSE 1) + WidthOfRunes(Tail(rs), tabSize)

DisplayWidth(p, tabSize) == WidthOfRunes(Runes(p), tabSize)

EndsWith(b, suffix) ==
    /\ Len(b) >= Len(suffix)
    /\ SubSeq(b, Len(b) - Len(suffix) + 1, Len(b)) = suffix

\* The values of the tokens of the given types, concatenated in order.
ValuesOf(toks, types) ==
    Flatten([i \in 1..Len(toks) |->
                IF toks[i].typ \in types THEN toks[i].value ELSE <<>>])

\* The call on the one input has returned: every token was received.
Returned == pc = "done" /\ input # <<>> /\ Len(calls) = 1
Output == calls[1].b

\* What a line starts with after a break: the comment prefix or the indent.
LinePrefix(x) ==
    CASE x.CommentStyle = "CPPComment" -> cppComment
      [] x.CommentStyle = "ShellComment" -> shellComment
      [] OTHER -> x.indentText

LinePrefixWidth(x) ==
    CASE x.CommentStyle = "CPPComment" -> 3
      [] x.CommentStyle = "ShellComment" -> 2
      [] OTHER -> x.indentLen

\* C1, first half: every code point of every Text and Hyphen token of the
\* input is in the output the call returns, in input order.
C1_TextKept ==
    Returned =>
        IsSubseq(Runes(ValuesOf(emitted, {tokenText, tokenHyphen})), Runes(Output))

\* C1, second half: nl() retracts bytes only when the token before was a
\* Space that was written to the output, never for one that was skipped.
C1_RetractsWrittenSpace ==
    ev.kind \in {"nl", "wrap"} /\ ev.cut > 0 => ev.priorWrote

\* C1: all Text and Hyphen code points reach the output in order, and nl()
\* retracts only the bytes of a Space token that was written last.
C1_TextPreserved == C1_TextKept /\ C1_RetractsWrittenSpace

\* C6: Bytes returns normally for every non-empty input and Length >= 1: no
\* slice or index expression of nl() or cleanBlank*CommentLine is out of range.
C6_NoPanic == pc # "panic"

\* C7: the output has at least as many '\n' as the input: every NewLine
\* token's break is still there when the call returns.
C7_NewlinesKept == Returned => Count(Output, nl) >= Count(input, nl)

\* C8: for a Text, Space or Hyphen token given to wrap(), w.nl() writes a
\* break before the token if and only if column + token length >= Length,
\* column being w.l after the previous token; with a break the output then
\* ends with the break, the line prefix and the token (a Space is dropped),
\* without one the token is appended to the line.
C8_BreakRule ==
    ev.kind = "wrap" /\ ev.tok.typ \in {tokenText, tokenSpace, tokenHyphen} =>
        /\ ev.broke <=> ev.col + ev.tok.len >= ev.Length
        /\ ev.broke /\ pc # "panic" =>
              /\ ev.wrote <=> ev.tok.typ # tokenSpace
              /\ EndsWith(w.b, <<nl>> \o LinePrefix(w) \o
                               (IF ev.wrote THEN ev.tok.value ELSE <<>>))
        /\ ~ev.broke =>
              /\ ev.wrote
              /\ Len(w.b) = ev.blen + Len(ev.tok.value)
              /\ EndsWith(w.b, ev.tok.value)
              /\ w.l = ev.col + ev.tok.len

\* A Text token that exactly fills the line to Length went to the next line.
C8_Witness ==
    /\ ev.kind = "wrap" /\ ev.tok.typ = tokenText /\ pc = "loop"
    /\ ev.col > 0 /\ ev.col + ev.tok.len = ev.Length
    /\ ev.broke /\ ev.wrote

\* The output without the markers of a C comment: the "/*" line in front
\* and the "*/\n" appended to the last line.
Body(x, out) ==
    IF x.CommentStyle = "CComment"
    THEN Slice(out, Len(cCommentBegin), Len(out) - Len(cCommentEnd))
    ELSE out

LineWidths(x, p) ==
    LET ls == Lines(p) IN {DisplayWidth(ls[i], x.tabSize) : i \in 1..Len(ls)}

TextTokens == {emitted[i] : i \in {j \in 1..Len(emitted) :
                                      emitted[j].typ \in {tokenText, tokenHyphen}}}

SpaceTokens == {emitted[i] : i \in {j \in 1..Len(emitted) :
                                       emitted[j].typ = tokenSpace}}

C2_Pre ==
    /\ LinePrefixWidth(w) < w.Length
    /\ \A t \in TextTokens : LinePrefixWidth(w) + t.len < w.Length
    /\ \A t \in SpaceTokens : \A i \in 1..Len(t.value) : t.value[i] # tab

C5_ShortUnchangedAsStated ==
    Returned /\ w.CommentStyle = "NoComment"
             /\ DisplayWidth(input, w.tabSize) < w.Length
        => Output = input

\* No Space token is directly before or directly after a NewLine token.
NoSpaceBesideNL ==
    \A i \in 1..Len(emitted) :
        emitted[i].typ = tokenSpace =>
            /\ i > 1 => emitted[i - 1].typ # tokenNL
            /\ i < Len(emitted) => emitted[i + 1].typ # tokenNL

\* The inputs and configurations of the amended C5.
C5_Pre ==
    /\ w.CommentStyle = "NoComment"
    /\ w.indentText = <<>>
    /\ \A i \in 1..Len(input) : input[i] # cr
    /\ NoSpaceBesideNL
    /\ \A n \in LineWidths(w, input) : n < w.Length

\* C5, amended: with no comment style and no indent, an input without
\* carriage returns, without a run of spaces beside a newline, and whose
\* lines each have display width less than Length, is returned unchanged.
C5_ShortUnchanged == Returned /\ C5_Pre => Output = input

\* Such an input with a tab, a newline and text came back unchanged.
C5_Witness ==
    /\ Returned /\ C5_Pre /\ Output = input
    /\ \E i \in 1..Len(input) : input[i] = nl
    /\ \E i \in 1..Len(input) : input[i] = tab
    /\ TextTokens # {}

-----------------------------------------------------------------------------
(* Properties of the lexer on its own (SpecLex).                           *)

\* collect() has received the EOF token.
Collected == got # <<>> /\ got[Len(got)].typ = tokenEOF

\* The byte offset right after token i of got (0 before the first one).
EndOf(i) == IF i = 0 THEN 0 ELSE got[i].pos + Len(got[i].value)

WithoutCR(p) == SelectSeq(p, LAMBDA b : b # cr)

\* C4 as the claim states it: each token starts where the token before it
\* ends, and the values of the tokens before EOF, concatenated, are the input.
C4_ReconstructsAsStated ==
    /\ \A i \in 2..Len(got) : got[i].pos = EndOf(i - 1)
    /\ Collected => Flatten([i \in 1..Len(got) |-> got[i].value]) = input

\* C4, amended: the tokens are in input order and do not overlap; each value
\* is the input's bytes at the token's pos; the bytes between one token and
\* the next are carriage returns and nothing else; the values concatenated
\* are the input with every carriage return removed; the EOF token is empty
\* and sits at the end of the input.
C4_Reconstructs ==
    /\ \A i \in 1..Len(got) :
          /\ got[i].pos >= EndOf(i - 1)
          /\ got[i].value = Slice(input, got[i].pos, EndOf(i))
          /\ \A k \in (EndOf(i - 1) + 1)..got[i].pos : input[k] = cr
          /\ \A k \in 1..Len(got[i].value) : got[i].value[k] # cr
    /\ Collected =>
          /\ Flatten([i \in 1..Len(got) |-> got[i].value]) = WithoutCR(input)
          /\ got[Len(got)].pos = Len(input)
          /\ got[Len(got)].value = <<>>
          /\ got[Len(got)].len = 0

\* An input with a carriage return between two tokens has been lexed.
C4_Witness ==
    /\ Collected
    /\ \E i \in 2..(Len(got) - 1) : got[i].pos > EndOf(i - 1) /\ got[i].typ = tokenText

-----------------------------------------------------------------------------
(* SpecClassify: one code point between two letters, classified by key,    *)
(* isHyphen and the rune classifiers, and lexed.                           *)

\* The code points the claim names: U+2011, U+207B, U+208B, U+2212, U+301C,
\* U+3030, U+1806.
NamedDashes == {8209, 8315, 8331, 8722, 12316, 12336, 6150}

\* Every key of the table, every Dash code point, a letter and '~'.
ClassifiedRunes == {e[1] : e \in keyTable} \cup unicodeDash \cup NamedDashes \cup {97, 126}

InitClassify ==
    /\ cp \in ClassifiedRunes
    /\ input = EncodeRunes(<<97, cp, 97>>)
    /\ lexer = lex(input)
    /\ tokens = <<>>
    /\ closed = FALSE
    /\ emitted = <<>>
    /\ got = <<>>
    /\ NoWrapper
    /\ NoWrap

SpecClassify == InitClassify /\ [][NextLex]_vars

TypesOf(toks) == [i \in 1..Len(toks) |-> toks[i].typ]

C11_IncludedAsStated ==
    cp \in {126, 173, 45} =>
        /\ isHyphen(key(cp))
        /\ Collected => TypesOf(got) = <<tokenText, tokenHyphen, tokenText, tokenEOF>>

\* C11, amended: key and isHyphen of part_001 classify U+002D and U+00AD as
\* Hyphen, and the lexer ends the Text token before each and emits it as a
\* Hyphen token of its own; U+007E is no key of the table, is not a Hyphen
\* and stays inside its Text token.  isHyphen of linewrap.go is TRUE for all
\* three.
C11_Included ==
    /\ cp \in {45, 173} =>
          /\ isHyphen(key(cp))
          /\ Collected => /\ TypesOf(got) = <<tokenText, tokenHyphen, tokenText, tokenEOF>>
                          /\ got[1].value = <<97>>
                          /\ got[2].value = EncodeRune(cp)
                          /\ got[3].value = <<97>>
    /\ cp = 126 =>
          /\ ~keyOk(cp) /\ ~isHyphen(key(cp))
          /\ Collected => /\ TypesOf(got) = <<tokenText, tokenEOF>>
                          /\ got[1].value = input
    /\ cp \in {45, 126, 173} => isHyphenRune(cp)

\* "a", U+00AD, "a" has been lexed and the soft hyphen came out as a Hyphen
\* token between two Text tokens.
C11_Witness == cp = 173 /\ Collected /\ got[2].typ = tokenHyphen /\ Len(got) = 4

-----------------------------------------------------------------------------
(* SpecWrap: one Bytes call on a Wrap made by New() and configured through *)
(* its fields and LineComment, as Line makes it on its copy of the Wrap,   *)
(* and Unwrap on what the call returns.                                    *)

\* a, space, tab, \n, \r, - and U+FEFF.
WrapAlphabet == {97, 32, 9, 10, 13, 45, 65279}
WrapTabSizes == {2}
NewLines == {<<lf>>, <<13, lf>>}

\* The indent settings: none, Indent with IndentVal " ", LineComment(true).
IndentSettings == {"none", "indent", "comment"}

ConfiguredWrap(len, ts, unw, ind, newline) ==
    LET x == [NewWrap EXCEPT !.Length = len, !.TabSize = ts, !.Unwrappable = unw,
                             !.NewLine = newline]
    IN  CASE ind = "none" -> x
          [] ind = "indent" -> [x EXCEPT !.Indent = TRUE, !.IndentVal = <<32>>]
          [] ind = "comment" -> LineComment(x, TRUE)

InitWrap ==
    /\ \E len \in Lengths, ts \in WrapTabSizes, unw \in BOOLEAN,
          ind \in IndentSettings, newline \in NewLines :
          wr = ConfiguredWrap(len, ts, unw, ind, newline)
    /\ wpc = "idle"
    /\ unwrapped = <<>>
    /\ calls = <<>>
    /\ input = <<>>
    /\ got = <<>>
    /\ cp = 0
    /\ w = New
    /\ tkn = ZeroToken
    /\ pc = "idle"
    /\ ev = NoEvent
    /\ NoLex

\* The caller's one call.
WrapCall ==
    \E s \in InputsOver(WrapAlphabet, MaxLen) : calls = <<>> /\ wpc = "idle" /\ WrapBytesCall(s)

NextWrap ==
    \/ WrapCall
    \/ WrapSpaceChunk
    \/ WrapWordChunk
    \/ CallUnwrap

SpecWrap == InitWrap /\ [][NextWrap]_vars

\* Unwrap has been applied to the output of the call on a non-empty input.
Unwrapped == wpc = "unwrapped" /\ input # <<>>

\* Every '\n' of p is part of the sequence newline, and every '\r' of p is
\* part of one when newline is "\r\n".
RECURSIVE UsesNewLine(_, _)
UsesNewLine(p, newline) ==
    IF p = <<>> THEN TRUE
    ELSE IF Len(p) >= Len(newline) /\ SubSeq(p, 1, Len(newline)) = newline
    THEN UsesNewLine(SubSeq(p, Len(newline) + 1, Len(p)), newline)
    ELSE Head(p) # lf /\ (Len(newline) = 2 => Head(p) # 13) /\ UsesNewLine(Tail(p), newline)

\* Every '\n' of p is written the way newline writes it: after a '\r' when
\* newline is "\r\n", after no '\r' when it is "\n".
BreaksMatch(p, newline) ==
    \A i \in 1..Len(p) :
        p[i] = lf => (Len(newline) = 2 <=> (i > 1 /\ p[i - 1] = 13))

\* C3 as the claim states it: with Unwrappable set and NewLine equal to the
\* line-break sequence of s, Unwrap(Line(s)) is s.
C3_RoundTripAsStated ==
    Unwrapped /\ wr.Unwrappable /\ BreaksMatch(input, wr.NewLine) => unwrapped = input

\* The inputs and configurations of the amended C3.
C3_Pre ==
    /\ wr.Unwrappable
    /\ ~wr.Indent
    /\ UsesNewLine(input, wr.NewLine)
    /\ (wr.NewLine = <<lf>> => \A i \in 1..Len(input) : input[i] # 13)
    /\ LET rs == Runes(input) IN
       \A i \in 1..Len(rs) :
           rs[i] = zeroNBSP =>
               /\ i < Len(rs)
               /\ rs[i + 1] # zeroNBSP
               /\ ~isSpaceRune(rs[i + 1])

\* C3, amended: with Unwrappable set and Indent not set, for a UTF-8 input
\* whose line breaks are all NewLine, that has no other carriage return, and
\* in which every U+FEFF is directly followed by a code point that is
\* neither U+FEFF nor a space, Unwrap(Line(s)) is s.
C3_RoundTrip == Unwrapped /\ C3_Pre => unwrapped = input

\* Such an input with a U+FEFF in it was broken by the call and unwrapped.
C3_Witness ==
    /\ Unwrapped /\ C3_Pre
    /\ \E i \in 1..Len(Runes(input)) : Runes(input)[i] = zeroNBSP
    /\ calls[1].b # input
    /\ unwrapped = input

-----------------------------------------------------------------------------
(* SpecReuse: MaxCalls calls of Bytes, one after the other, on one Wrapper *)
(* with no Reset in between.  SpecWrapReuse: the same on one Wrap.         *)

\* a, space and \n.
ReuseAlphabet == {97, 32, 10}

\* The caller's next call.  The goroutine of the call before has nothing
\* left to do but close its channel, which no one reads any more.
CallAgain ==
    \E s \in InputsOver(ReuseAlphabet, MaxReuseLen) :
        Len(calls) < MaxCalls /\ BytesCall(s)

NextReuse ==
    \/ CallAgain
    \/ RunLexText
    \/ RunLexNL
    \/ RunLexSpace
    \/ Send
    \/ Close
    \/ BytesReturn
    \/ BytesSkipSpace
    \/ BytesNL
    \/ BytesWrap

SpecReuse == Init /\ [][NextReuse]_vars

WrapCallAgain ==
    \E s \in InputsOver(ReuseAlphabet, MaxReuseLen) :
        Len(calls) < MaxCalls /\ WrapBytesCall(s)

NextWrapReuse ==
    \/ WrapCallAgain
    \/ WrapSpaceChunk
    \/ WrapWordChunk

SpecWrapReuse == InitWrap /\ [][NextWrapReuse]_vars

\* The first call of a history is a call on a freshly made and configured
\* object; a later call on the same input has to return the same.
SameAsFresh ==
    \A i \in 1..Len(calls) : calls[i].in = calls[1].in => calls[i].b = calls[1].b

\* C9: a call on a Wrapper that has been used before, with no Reset in
\* between, returns what the call on the fresh Wrapper returned for the
\* same input.
C9_NoCrossCallState == SameAsFresh

\* The other half of C9, under SpecWrapReuse: a Bytes call on a Wrap that has
\* been used before returns what the call on the fresh Wrap returned.
WrapNoCrossCallState == SameAsFresh

-----------------------------------------------------------------------------
(* One Bytes call on text with the zero width space and the no-break       *)
(* spaces (TestWrapLine, the tests with U+00A0, U+200B, U+202F, U+FEFF).   *)

NoBreakSpaces == {160, 8239, 65279}
NoBreakAlphabet == {97, 8203} \cup NoBreakSpaces

CallNoBreak ==
    \E s \in InputsOver(NoBreakAlphabet, MaxLen) :
        calls = <<>> /\ pc = "idle" /\ BytesCall(s)

NextNoBreak ==
    \/ CallNoBreak
    \/ RunLexText
    \/ RunLexSpace
    \/ Send
    \/ Close
    \/ BytesReturn
    \/ BytesWrap

SpecNoBreak == Init /\ [][NextNoBreak]_vars

\* The number of maximal runs of code points other than U+200B.
TextRuns(rs) ==
    Cardinality({i \in 1..Len(rs) :
                    rs[i] # 8203 /\ (IF i = 1 THEN TRUE ELSE rs[i - 1] = 8203)})

TokensOf(toks, typ) == {i \in 1..Len(toks) : toks[i].typ = typ}

\* A '\n' stands directly before or directly after a no-break space.
BreakBeside(rs) ==
    \E i \in 1..(Len(rs) - 1) :
        \/ rs[i] \in NoBreakSpaces /\ rs[i + 1] = nl
        \/ rs[i] = nl /\ rs[i + 1] \in NoBreakSpaces

\* C12 as the claim states it: U+200B is a Space, the no-break spaces are
\* not, and no break is ever written next to a no-break space.
C12_SpacesAsStated ==
    /\ isSpace(key(8203))
    /\ \A c \in NoBreakSpaces : ~isSpace(key(c))
    /\ Returned => ~BreakBeside(Runes(Output))

\* C12, amended: U+200B is classified as Space by both classifiers and ends
\* the Text token; U+00A0, U+202F and U+FEFF are classified as Space by
\* neither, and together with every code point that is no key of the table
\* they stay inside one Text token with the text around them: the Text
\* tokens are the maximal runs between the U+200B.  A Text token is written
\* to the output whole, so no break separates a no-break space from the
\* text of its token; a break can stand directly before or after one that
\* begins or ends its Text token.
C12_Spaces ==
    /\ isSpace(key(8203)) /\ isSpaceRune(8203)
    /\ \A c \in NoBreakSpaces : ~isSpace(key(c)) /\ ~isSpaceRune(c)
    /\ \A c \in {97, 160, 8239} : ~keyOk(c)
    /\ \A i \in 1..Len(emitted) :
          /\ emitted[i].typ \in {tokenText, tokenSpace, tokenEOF}
          /\ emitted[i].typ = tokenSpace =>
                \A j \in 1..Len(Runes(emitted[i].value)) : Runes(emitted[i].value)[j] = 8203
          /\ emitted[i].typ = tokenText =>
                \A j \in 1..Len(Runes(emitted[i].value)) : Runes(emitted[i].value)[j] # 8203
    /\ closed =>
          /\ Cardinality(TokensOf(emitted, tokenText)) = TextRuns(Runes(input))
          /\ ValuesOf(emitted, {tokenText, tokenSpace}) = input
    /\ ev.kind = "wrap" /\ ev.wrote /\ ev.tok.typ = tokenText =>
          EndsWith(w.b, ev.tok.value)

\* "a", U+200B, U+00A0 with Length 2: the break replaces the zero width
\* space and stands directly before the no-break space.
C12_Witness ==
    /\ Returned
    /\ input = EncodeRunes(<<97, 8203, 160>>)
    /\ Output = EncodeRunes(<<97, nl, 160>>)

-----------------------------------------------------------------------------
(* Comment styles of one Bytes call (Spec).                                *)

LineCommentStyle == w.CommentStyle \in {"CPPComment", "ShellComment"}

\* The comment marker of the style, the prefix without its trailing space.
Marker(x) == Slice(LinePrefix(x), 0, Len(LinePrefix(x)) - 1)

\* C13: in CPPComment or ShellComment style no line of the output is the
\* prefix with its trailing space and nothing else ("// " or "# "), the
\* last line included.
C13_NoBareComment ==
    Returned /\ LineCommentStyle =>
        \A i \in 1..Len(Lines(Output)) : Lines(Output)[i] # LinePrefix(w)

\* What the code does keep: a line that a break of nl() ended is never the
\* bare prefix; only the last line of the output can be.
BareCommentOnlyLast ==
    Returned /\ LineCommentStyle =>
        \A i \in 1..(Len(Lines(Output)) - 1) : Lines(Output)[i] # LinePrefix(w)

StartsWith(b, prefix) ==
    Len(b) >= Len(prefix) /\ SubSeq(b, 1, Len(prefix)) = prefix

\* The line starts with the marker and holds no byte of a second marker
\* (no input of Spec has a '/' or a '#').
FramedLine(x, line) ==
    /\ StartsWith(line, Marker(x))
    /\ Count(line, 47) + Count(line, 35) = Len(Marker(x))
    /\ Len(line) > Len(Marker(x)) => StartsWith(line, LinePrefix(x))

\* C14: in CPPComment or ShellComment style every line of the output starts
\* with the comment marker, written once and intact; after every break the
\* output ends with the break and the prefix, never the indent text, and the
\* column is the prefix length.
C14_LineFraming ==
    LineCommentStyle =>
        /\ Returned => \A i \in 1..Len(Lines(Output)) : FramedLine(w, Lines(Output)[i])
        /\ ev.kind = "nl" /\ pc # "panic" =>
              /\ EndsWith(w.b, <<nl>> \o LinePrefix(w))
              /\ w.l = LinePrefixWidth(w)
        /\ ev.kind = "wrap" /\ ev.broke /\ pc # "panic" =>
              w.l = LinePrefixWidth(w) + (IF ev.wrote THEN ev.tok.len ELSE 0)

\* What the code does keep: the framing holds for every call whose input
\* has no Space token, so that nl() has no bytes to cut.
FramedWithoutSpaces ==
    LineCommentStyle /\ TokensOf(emitted, tokenSpace) = {} =>
        /\ Returned => \A i \in 1..Len(Lines(Output)) : FramedLine(w, Lines(Output)[i])
        /\ ev.kind = "nl" /\ pc # "panic" =>
              /\ EndsWith(w.b, <<nl>> \o LinePrefix(w))
              /\ w.l = LinePrefixWidth(w)
        /\ ev.kind = "wrap" /\ ev.broke /\ pc # "panic" =>
              w.l = LinePrefixWidth(w) + (IF ev.wrote THEN ev.tok.len ELSE 0)

\* The loop of Bytes over the tokens the lexer sends, as one function:
\* [w, panic], t0 being tkn of the iteration before.
RECURSIVE bytesLoop(_, _, _)
bytesLoop(x, t0, toks) ==
    IF toks = <<>> THEN [w |-> x, panic |-> FALSE]
    ELSE LET t == Head(toks)
             x1 == [x EXCEPT !.priorToken = t0]
         IN  CASE t.typ = tokenEOF -> [w |-> commentEnd(x1), panic |-> FALSE]
               [] t.typ = tokenError -> [w |-> x1, panic |-> FALSE]
               [] t.typ = tokenSpace /\ t0.typ = tokenNL -> bytesLoop(x1, t, Tail(toks))
               [] t.typ = tokenNL ->
                     LET r == wnl(x1) IN
                     IF r.panic THEN r ELSE bytesLoop(r.w, t, Tail(toks))
               [] OTHER ->
                     LET r == wrap(x1, t) IN
                     IF r.panic THEN [w |-> r.w, panic |-> TRUE]
                     ELSE IF r.skip THEN bytesLoop(r.w, r.t, Tail(toks))
                     ELSE bytesLoop([append(r.w, TokenString(r.t)) EXCEPT !.l = @ + r.t.len],
                                    r.t, Tail(toks))

\* Bytes on a Wrapper with nothing written yet, given the tokens of its input.
BytesOf(x, toks) == bytesLoop(commentBegin(x), ZeroToken, toks)

\* The Wrapper of the call as it was before the call, in the given style.
FreshAs(x, style) ==
    [x EXCEPT !.b = <<>>, !.l = 0, !.priorToken = ZeroToken, !.CommentStyle = style]

\* The loop function returns what the steps of Bytes return.
BytesOfAgrees ==
    Returned =>
        LET r == BytesOf(FreshAs(w, w.CommentStyle), emitted) IN
        ~r.panic /\ r.w.b = Output

\* C15: in CComment style the output is "/*\n", then the output of the same
\* configuration with NoComment for the same input, then "*/\n", and the
\* byte before the end marker is a '\n' (the marker starts a line).
C15_BlockFraming ==
    Returned /\ w.CommentStyle = "CComment" =>
        LET nc == BytesOf(FreshAs(w, "NoComment"), emitted) IN
        /\ ~nc.panic
        /\ Output = cCommentBegin \o nc.w.b \o cCommentEnd
        /\ Output[Len(Output) - Len(cCommentEnd)] = nl

\* What the code does keep: whenever the NoComment call returns, the
\* CComment output is "/*\n", the NoComment output and "*/\n".
BlockFramingWhenReturns ==
    Returned /\ w.CommentStyle = "CComment" =>
        LET nc == BytesOf(FreshAs(w, "NoComment"), emitted) IN
        ~nc.panic => Output = cCommentBegin \o nc.w.b \o cCommentEnd

\* The CComment call returns although the NoComment call panics.
BlockReturnsWherePlainPanics ==
    Returned /\ w.CommentStyle = "CComment" =>
        ~BytesOf(FreshAs(w, "NoComment"), emitted).panic

-----------------------------------------------------------------------------
(* Carriage returns in one Bytes call (Spec).                              *)

\* run() as one function: the tokens the lexer sends, in order.
RECURSIVE lexRun(_)
lexRun(l) ==
    CASE l.state = "lexText" -> lexRun(lexText(l))
      [] l.state = "lexCR" -> lexRun(lexCR(l))
      [] l.state = "lexNL" -> lexRun(lexNL(l))
      [] l.state = "lexTab" -> lexRun(lexTab(l))
      [] l.state = "lexSpace" -> lexRun(lexSpace(l))
      [] l.state = "lexHyphen" -> lexRun(lexHyphen(l))
      [] OTHER -> l.out

\* The function returns what the goroutine sends.
LexRunAgrees == closed => emitted = lexRun(lex(input))

BreakAtCR ==
    /\ Returned
    /\ w.CommentStyle = "NoComment"
    /\ input = <<97, cr, 97>>
    /\ Output = <<97, nl, 97>>

-----------------------------------------------------------------------------
(* One Bytes call on bytes that need not be UTF-8: 0xFF is never valid,    *)
(* 0x80 is a continuation byte, 0xC3 leads a two byte sequence (0xC3 0x80  *)
(* is U+00C0).                                                             *)

RawBytes == {97, 32, 128, 195, 255}

CallRaw ==
    \E s \in SeqsUpTo(RawBytes, MaxLen) :
        calls = <<>> /\ pc = "idle" /\ BytesCall(s)

NextRaw ==
    \/ CallRaw
    \/ RunLexText
    \/ RunLexSpace
    \/ Send
    \/ Close
    \/ BytesReturn
    \/ BytesWrap

SpecRaw == Init /\ [][NextRaw]_vars

\* utf8.Valid(p), for byte strings over RawBytes.
ValidUTF8(p) == \A i \in 1..Len(Runes(p)) : Runes(p)[i] # RuneError

\* C17: when the input holds a malformed byte sequence the lexer emits an
\* Error token with a message and no token after it, and the call returns
\* that error.
C17_ErrorReturned ==
    Returned /\ ~ValidUTF8(input) =>
        /\ calls[1].err
        /\ emitted # <<>>
        /\ emitted[Len(emitted)].typ = tokenError
        /\ emitted[Len(emitted)].value # <<>>

\* What the code does: the lexer never emits an Error token and Bytes never
\* returns an error; a malformed byte is a code point of width 1 that is no
\* key of the table, and stays in its Text token.
NoErrorToken ==
    /\ \A i \in 1..Len(emitted) : emitted[i].typ # tokenError
    /\ \A i \in 1..Len(calls) : ~calls[i].err
    /\ closed => ValuesOf(emitted, {tokenText, tokenSpace}) = input

\* 0xFF has been wrapped and returned as it is, without an error.
MalformedReturned ==
    Returned /\ w.CommentStyle = "NoComment" /\ input = <<255>> /\ Output = <<255>>

-----------------------------------------------------------------------------
(* One Bytes call on a Wrapper whose Length is 0 or negative.              *)

BadLengths == {-1, 0}

InitBadLength ==
    /\ \E len \in BadLengths, ts \in TabSizes, it \in IndentTexts, cs \in CommentStyles :
          w = Configured(len, ts, it, cs)
    /\ tkn = ZeroToken
    /\ pc = "idle"
    /\ ev = NoEvent
    /\ calls = <<>>
    /\ input = <<>>
    /\ got = <<>>
    /\ cp = 0
    /\ NoLex
    /\ NoWrap

CallBadLength ==
    \E s \in InputsOver(ReuseAlphabet, MaxLen) :
        calls = <<>> /\ pc = "idle" /\ BytesCall(s)

NextBadLength ==
    \/ CallBadLength
    \/ RunLexText
    \/ RunLexNL
    \/ RunLexSpace
    \/ Send
    \/ Close
    \/ BytesReturn
    \/ BytesSkipSpace
    \/ BytesNL
    \/ BytesWrap

SpecBadLength == InitBadLength /\ [][NextBadLength]_vars

\* C18: with Length <= 0 the call is rejected with an error before any
\* token is lexed: no lexer is started, no token is processed, nothing is
\* written, and the call returns an error.
C18_Rejected ==
    w.Length <= 0 /\ input # <<>> =>
        /\ lexer = NoLexer
        /\ emitted = <<>>
        /\ ev.kind = "none"
        /\ w.b = <<>>
        /\ pc = "done" /\ calls[1].err

\* What the code does: Bytes has no test of Length; every token is lexed
\* and given to wrap(), which calls nl() before every one, and no error is
\* returned.
BreakBeforeEveryToken ==
    /\ ev.kind = "wrap" => ev.broke
    /\ \A i \in 1..Len(calls) : ~calls[i].err

\* "a" has been wrapped with Length 0: a break, then the text, no error.
BadLengthReturned ==
    /\ Returned
    /\ w.Length = 0
    /\ w.CommentStyle = "NoComment"
    /\ w.indentText = <<>>
    /\ input = <<97>>
    /\ Output = <<nl, 97>>
    /\ ~calls[1].err

-----------------------------------------------------------------------------
(* One caller with a Wrapper and a Wrap, each called up to MaxCalls times  *)
(* in all, one call at a time, the empty input among the inputs.           *)

InitEither ==
    \/ Init /\ w.Length = MaxReuseLen
    \/ InitWrap /\ wr.Length = MaxReuseLen /\ wr.NewLine = <<lf>>

CallEither == wpc \in {"idle", "done"} /\ CallAgain

WrapCallEither == pc \in {"idle", "done"} /\ WrapCallAgain

NextEither ==
    \/ CallEither
    \/ WrapCallEither
    \/ RunLexText
    \/ RunLexNL
    \/ RunLexSpace
    \/ Send
    \/ Close
    \/ BytesReturn
    \/ BytesSkipSpace
    \/ BytesNL
    \/ BytesWrap
    \/ WrapSpaceChunk
    \/ WrapWordChunk

SpecEither == InitEither /\ [][NextEither]_vars

\* The step is a call with the empty input: what the caller and the two
\* objects hold changes while the input becomes (or stays) empty.
EmptyCall ==
    /\ input' = <<>>
    /\ <<w, tkn, pc, wr, wpc, calls>>' # <<w, tkn, pc, wr, wpc, calls>>

\* C19: a call with the empty input, of Wrapper.String/Bytes or of
\* Wrap.Line/Bytes, in any configuration and on a fresh or a used object,
\* returns the empty input and a nil error at once; the Wrapper and the
\* Wrap are left as they were (no prefix, marker, indent or break is
\* written, the column is kept) and no lexer is started.
C19_EmptyShortCircuit ==
    [][EmptyCall =>
          /\ calls' = Append(calls, [in |-> <<>>, b |-> <<>>, err |-> FALSE])
          /\ w' = w /\ wr' = wr /\ tkn' = tkn
          /\ lexer' = lexer /\ tokens' = tokens /\ emitted' = emitted]_vars

\* A CPPComment Wrapper that has wrapped an input is called with the empty
\* input: the empty result is returned and the buffer is as it was.
C19_Witness ==
    /\ Len(calls) = 2
    /\ calls[1].in # <<>>
    /\ calls[2] = [in |-> <<>>, b |-> <<>>, err |-> FALSE]
    /\ w.CommentStyle = "CPPComment"
    /\ w.b = calls[1].b /\ w.b # <<>>
    /\ pc = "done"

\* The same for a Wrap with LineComment(true), Indent and Unwrappable.
EmptyWrapCall ==
    /\ Len(calls) = 2
    /\ calls[1].in # <<>>
    /\ calls[2] = [in |-> <<>>, b |-> <<>>, err |-> FALSE]
    /\ wr.lineComment /\ wr.Unwrappable
    /\ wr.buf = calls[1].b /\ wr.buf # <<>>
    /\ wpc = "done"

-----------------------------------------------------------------------------
(* Unwrap called on a string of the caller's own (TestUnwrappable has      *)
(* U+FEFF in its inputs).                                                  *)

UnwrapAlphabet == {97, 13, 10, 65279}

InitUnwrap ==
    /\ input \in InputsOver(UnwrapAlphabet, MaxLen)
    /\ got = <<>>
    /\ cp = 0
    /\ NoWrapper
    /\ NoLex
    /\ NoWrap

\* Unwrap(s) for the caller's string.
UnwrapInput ==
    /\ wpc = "idle"
    /\ unwrapped' = Unwrap(input)
    /\ wpc' = "unwrapped"
    /\ UNCHANGED <<input, wr, calls, got, cp, lexVars, w, tkn, pc, ev>>

\* The caller looks at the result and lets go of it.
UnwrapDone ==
    /\ wpc = "unwrapped"
    /\ wpc' = "done"
    /\ UNCHANGED <<input, wr, unwrapped, calls, got, cp, lexVars, w, tkn, pc, ev>>

NextUnwrap == UnwrapInput \/ UnwrapDone

SpecUnwrap == InitUnwrap /\ [][NextUnwrap]_vars

\* rs[i] is directly followed by a newline sequence: carriage returns, if
\* any, then a line feed.
NewlineFollows(rs, i) ==
    \E j \in (i + 1)..Len(rs) :
        rs[j] = lf /\ \A k \in (i + 1)..(j - 1) : rs[k] = 13

\* From rs[i] on, no U+FEFF is directly followed by a newline sequence.
NoMarkerFrom(rs, i) ==
    \A j \in i..Len(rs) : rs[j] = zeroNBSP => ~NewlineFollows(rs, j)

\* C20: a U+FEFF that is not directly followed by a newline sequence is
\* copied to the result with everything after it (as far as no later U+FEFF
\* marks a newline sequence), and without U+FEFF Unwrap is the identity.
C20_PassThrough ==
    wpc = "unwrapped" =>
        LET rs == Runes(input) IN
        /\ \A i \in 1..Len(rs) :
              rs[i] = zeroNBSP /\ NoMarkerFrom(rs, i) =>
                  EndsWith(unwrapped, EncodeRunes(SubSeq(rs, i, Len(rs))))
        /\ Count(rs, zeroNBSP) = 0 => unwrapped = input

\* What the code does keep: without U+FEFF Unwrap is the identity, and so
\* it is when every U+FEFF is directly followed by a code point other than
\* U+FEFF, '\r' and '\n'.
UnwrapKeeps ==
    wpc = "unwrapped" =>
        LET rs == Runes(input) IN
        (\A i \in 1..Len(rs) :
            rs[i] = zeroNBSP => i < Len(rs) /\ rs[i + 1] \notin {zeroNBSP, 13, lf})
        => unwrapped = input

\* Unwrap of "a" and one U+FEFF has returned "a".
MarkerAtEndDropped ==
    wpc = "unwrapped" /\ input = <<97>> \o EncodeRune(zeroNBSP) /\ unwrapped = <<97>>

-----------------------------------------------------------------------------
(* The breaks of one Bytes call of Wrap with Unwrappable set (SpecWrap).   *)

\* The mark of an inserted break: U+FEFF, then NewLine.
Mark(x) == EncodeRune(zeroNBSP) \o x.NewLine

\* The number of places of p where q stands.
Occurrences(p, q) ==
    Cardinality({i \in 1..(Len(p) - Len(q) + 1) : SubSeq(p, i, i + Len(q) - 1) = q})

\* The bytes the step read from the input and the bytes it wrote.
ChunkRead == Slice(input, wr.r.i, wr'.r.i)
Written == Slice(wr'.buf, Len(wr.buf), Len(wr'.buf))

\* An iteration of Bytes' loop is taken on a Wrap with Unwrappable set.
LoopStep == wpc = "loop" /\ wr.Unwrappable /\ wr' # wr

\* C21: with Unwrappable set, a word chunk that does not fit is written
\* after U+FEFF and NewLine (and IndentVal when Indent is set), one that fits
\* is written as it is; a space chunk with a newline has each of its
\* newlines written as NewLine and no U+FEFF, a space chunk without one that
\* does not fit gets one U+FEFF and NewLine.  So every step writes as many
\* U+FEFF+NewLine sequences as it inserts breaks, and, for an input without
\* U+FEFF, the output has one U+FEFF+NewLine for every '\n' it has more
\* than the input.
C21_BreaksMarked ==
    /\ [][LoopStep /\ wr.space =>
            /\ StartsWith(wr'.buf, wr.buf)
            /\ Written = (IF wr.l + Len(Runes(ChunkRead)) >= wr.Length
                          THEN Mark(wr) \o (IF wr.Indent THEN wr.IndentVal ELSE <<>>)
                          ELSE <<>>) \o ChunkRead]_vars
    /\ [][LoopStep /\ ~wr.space =>
            LET inserted == IF /\ Count(ChunkRead, lf) = 0
                               /\ wr.l + Len(Runes(WithoutCR(ChunkRead))) >= wr.Length
                            THEN 1 ELSE 0
            IN  /\ StartsWith(wr'.buf, wr.buf)
                /\ Count(Written, lf) = Count(ChunkRead, lf) + inserted
                /\ Occurrences(Written, Mark(wr)) = inserted
                /\ Count(Runes(Written), zeroNBSP) = inserted
                /\ Occurrences(Written, wr.NewLine) = Count(Written, lf)]_vars
    /\ [](wpc = "done" /\ Len(calls) = 1 /\ wr.Unwrappable
             /\ Count(Runes(input), zeroNBSP) = 0 =>
            /\ Occurrences(calls[1].b, Mark(wr)) = Count(calls[1].b, lf) - Count(input, lf)
            /\ Count(Runes(calls[1].b), zeroNBSP) = Occurrences(calls[1].b, Mark(wr)))

\* An input with one newline and no U+FEFF has been wrapped with
\* Unwrappable set: the output has a marked break and the unmarked newline.
C21_Witness ==
    /\ wpc = "done" /\ Len(calls) = 1 /\ wr.Unwrappable
    /\ Count(Runes(input), zeroNBSP) = 0
    /\ Count(input, lf) = 1
    /\ Occurrences(calls[1].b, Mark(wr)) = 1
    /\ Count(calls[1].b, lf) = 2

\* The code points of p other than '\r', '\n' and U+FEFF: what neither an
\* inserted break nor a newline substitution adds or takes away.
Plain(p) == SelectSeq(Runes(p), LAMBDA r : r \notin {13, lf, zeroNBSP})

\* C22: with Unwrappable set, also when Indent is set, no step writes
\* IndentVal and no step drops whitespace of the input: what a step writes
\* differs from what it read only by U+FEFF+NewLine and by the newlines.
C22_NoIndent == [][LoopStep => Plain(Written) = Plain(ChunkRead)]_vars

\* What the code does keep: with Unwrappable set and Indent not set, no step
\* writes anything but its chunk, U+FEFF and newlines.
NoIndentWhenUnset == [][LoopStep /\ ~wr.Indent => Plain(Written) = Plain(ChunkRead)]_vars

\* With Unwrappable and Indent set and IndentVal " ", "aa" has been wrapped
\* at Length 2: U+FEFF, NewLine, the indent, then the text.
IndentWritten ==
    /\ wpc = "done" /\ Len(calls) = 1
    /\ wr.Unwrappable /\ wr.Indent /\ ~wr.lineComment
    /\ wr.Length = 2
    /\ input = <<97, 97>>
    /\ calls[1].b = Mark(wr) \o <<32, 97, 97>>

-----------------------------------------------------------------------------
(* Spaces beside the breaks of one Bytes call (Spec).                      *)

\* atBreakPoint gives classSpace for the code point: a space that is
\* neither a tab, a newline nor a carriage return.
SpaceClass(r) == isSpace(key(r)) /\ key(r) # tokenTab

\* The line without the comment prefix or indent text it starts with.
AfterPrefix(x, line) ==
    IF StartsWith(line, LinePrefix(x))
    THEN Slice(line, Len(LinePrefix(x)), Len(line))
    ELSE line

EndsWithSpace(line) ==
    LET rs == Runes(line) IN rs # <<>> /\ SpaceClass(rs[Len(rs)])

StartsWithSpace(line) ==
    LET rs == Runes(line) IN rs # <<>> /\ SpaceClass(rs[1])

\* C23: no line of the output that a break ends has a Space-class code
\* point last, and no line after a break has one first, after its comment
\* prefix or indent text.
C23_SpacesElided ==
    Returned =>
        LET ls == Lines(Output) IN
        /\ \A i \in 1..(Len(ls) - 1) : ~EndsWithSpace(AfterPrefix(w, ls[i]))
        /\ \A i \in 2..Len(ls) : ~StartsWithSpace(AfterPrefix(w, ls[i]))

\* What the code does keep: for an input with neither '\r' nor tab, no line
\* that a break ends has a Space-class code point last.
TrailingElidedWithoutCR ==
    Returned /\ Count(input, cr) = 0 /\ Count(input, tab) = 0 =>
        LET ls == Lines(Output) IN
        \A i \in 1..(Len(ls) - 1) : ~EndsWithSpace(AfterPrefix(w, ls[i]))

\* A tab and " " have been wrapped at Length 2: the break replaces the
\* tab, and the space, whose prior token is no NewLine, starts the line.
SpaceAfterTabKept ==
    /\ Returned /\ w.CommentStyle = "NoComment" /\ w.indentText = <<>>
    /\ w.Length = 2
    /\ input = <<tab, 32>>
    /\ Output = <<nl, 32>>

-----------------------------------------------------------------------------
(* SpecReset: calls of Bytes on one Wrapper with Reset in between: up to   *)
(* MaxCalls calls with no Reset, then Reset, then one more call.           *)

InitReset == Init /\ w.Length \in {MaxReuseLen, MaxLength}

IsReset(c) == "reset" \in DOMAIN c

\* The caller's w.Reset() between two calls.
CallReset ==
    /\ Len(calls) <= MaxCalls
    /\ calls # <<>> => ~IsReset(calls[Len(calls)])
    /\ Reset

\* The caller's call right after w.Reset().
CallAfterReset ==
    \E s \in InputsOver(ReuseAlphabet, MaxReuseLen) :
        /\ calls # <<>>
        /\ IsReset(calls[Len(calls)])
        /\ BytesCall(s)

NextReset ==
    \/ CallAgain
    \/ CallReset
    \/ CallAfterReset
    \/ RunLexText
    \/ RunLexNL
    \/ RunLexSpace
    \/ Send
    \/ Close
    \/ BytesReturn
    \/ BytesSkipSpace
    \/ BytesNL
    \/ BytesWrap

SpecReset == InitReset /\ [][NextReset]_vars

\* What Bytes(s) returns on a new Wrapper with the configuration of x:
\* [w, panic].
FreshBytes(x, s) ==
    IF s = <<>> THEN [w |-> [x EXCEPT !.b = s], panic |-> FALSE]
    ELSE BytesOf([FreshAs(x, x.CommentStyle) EXCEPT !.mem = <<>>], lexRun(lex(s)))

\* The configuration of a Wrapper.
ConfigOf(x) == <<x.Length, x.tabSize, x.indentText, x.indentLen, x.CommentStyle>>

\* Call i of calls was made right after a Reset and has returned.
AfterReset(i) == i > 1 /\ ~IsReset(calls[i]) /\ IsReset(calls[i - 1])

\* C24: a call made right after Reset() returns what a new Wrapper of the
\* same Length, tab size, indent text and comment style returns for the same
\* input, whatever calls came before; and Reset changes none of Length,
\* tabSize, indentText, indentLen and CommentStyle.
C24_ResetAsNew ==
    /\ [](\A i \in 1..Len(calls) :
            AfterReset(i) =>
                LET r == FreshBytes(w, calls[i].in) IN
                /\ ~r.panic
                /\ calls[i].b = r.w.b
                /\ ~IsReset(calls[1]) /\ calls[1].in = calls[i].in =>
                      calls[i].b = calls[1].b)
    /\ [][Len(calls') > Len(calls) /\ IsReset(calls'[Len(calls')]) =>
            /\ ConfigOf(w') = ConfigOf(w)
            /\ w'.b = <<>> /\ w'.l = 0]_vars

\* Two calls with no Reset have left text and a column in the Wrapper; after
\* Reset a third call on text that needs a break has returned.
C24_Witness ==
    /\ Len(calls) = 4 /\ pc = "done"
    /\ IsReset(calls[3]) /\ ~IsReset(calls[1]) /\ ~IsReset(calls[2])
    /\ calls[1].b # <<>> /\ calls[2].b # calls[2].in
    /\ Count(calls[4].b, nl) > Count(calls[4].in, nl)
    /\ calls[4].b = FreshBytes(w, calls[4].in).w.b

\* Call i of calls returned w.b (Bytes on an input that is not empty).
ReturnedSlice(i) == "arr" \in DOMAIN calls[i]

\* The bytes that the slice returned by call i holds now.
SliceNow(i) ==
    LET a == w.mem[calls[i].arr] IN SubSeq(a, 1, Len(calls[i].b))

\* C25: the slice a Bytes call returned holds the bytes it was returned with
\* also after a later Reset() and another Bytes call on the same Wrapper.
C25_SliceOwned ==
    \A i \in 1..Len(calls) :
        /\ ReturnedSlice(i)
        /\ \E j \in (i + 1)..Len(calls) : IsReset(calls[j]) /\ j < Len(calls)
        => SliceNow(i) = calls[i].b

\* What the code does keep: as long as no Reset follows it, the slice a call
\* returned holds what it was returned with, whatever calls follow.
SliceKeptWithoutReset ==
    \A i \in 1..Len(calls) :
        /\ ReturnedSlice(i)
        /\ \A j \in (i + 1)..Len(calls) : ~IsReset(calls[j])
        => SliceNow(i) = calls[i].b

\* Bytes("a") returned "a"; after Reset and a call on one '\n' that slice
\* holds "\n".
SliceOverwritten ==
    /\ Len(calls) = 3 /\ pc = "done"
    /\ ReturnedSlice(1) /\ IsReset(calls[2]) /\ ReturnedSlice(3)
    /\ calls[1].in = <<97>> /\ calls[1].b = <<97>>
    /\ calls[3].in = <<nl>>
    /\ SliceNow(1) = <<nl>>

-----------------------------------------------------------------------------
(* The column w.l of the Wrapper in one Bytes call (Spec).                 *)

\* The line that w.b ends with: its bytes after the last '\n'.
CurrentLine(b) == Lines(b)[Len(Lines(b))]

\* An iteration of Bytes' loop has processed a token and the loop goes on.
TokenProcessed == pc = "loop" /\ ev.kind # "none"

\* C26: after each token is processed w.l is the display width of the line
\* the output ends with: one column per code point, tabSize columns per tab
\* (so every tab of the input costs tabSize columns), the indent text or
\* comment prefix included.
C26_Column == TokenProcessed => w.l = DisplayWidth(CurrentLine(w.b), w.tabSize)

HasTab(p) == \E i \in 1..Len(p) : p[i] = tab

\* What the code does keep: as long as no Space token holds a tab, w.l is the
\* display width of the line the output ends with.
ColumnWithoutTabInSpace ==
    (\A i \in 1..Len(emitted) : emitted[i].typ = tokenSpace => ~HasTab(emitted[i].value))
        => C26_Column

\* A Space token that holds a tab has been written and w.l counts one
\* column for the tab.
TabInSpaceCostsOne ==
    /\ TokenProcessed /\ ev.kind = "wrap" /\ ev.wrote
    /\ ev.tok.typ = tokenSpace /\ HasTab(ev.tok.value)
    /\ CurrentLine(w.b) = ev.tok.value
    /\ w.l = ev.tok.len
    /\ w.l < DisplayWidth(CurrentLine(w.b), w.tabSize)

-----------------------------------------------------------------------------
(* Tabs, newlines and runs in the token stream (SpecLex).                  *)

\* The tokens of got of the given type.
GotOf(typ) == {i \in 1..Len(got) : got[i].typ = typ}

\* Token i of got is the one code point c on its own.
IsSingle(i, c) == got[i].value = <<c>> /\ got[i].len = 1

\* C27: every tab of the input is a Tab token of its own, of length 1, and
\* every line feed a NL token of its own; no other token holds a tab or a
\* line feed (so a tab after a space is not in the Space token and two
\* adjacent tabs are two tokens).
C27_TabsAlone ==
    Collected =>
        /\ Cardinality(GotOf(tokenTab)) = Count(input, tab)
        /\ Cardinality(GotOf(tokenNL)) = Count(input, nl)
        /\ \A i \in GotOf(tokenTab) : IsSingle(i, tab)
        /\ \A i \in GotOf(tokenNL) : IsSingle(i, nl)
        /\ \A i \in 1..Len(got) :
              got[i].typ \notin {tokenTab, tokenNL} =>
                  ~HasTab(got[i].value) /\ Count(got[i].value, nl) = 0

\* What the code does keep: every line feed is a NL token of its own, every
\* Tab token is one tab, and the only other tokens that hold a tab are Space
\* tokens that start with another code point of the space class.
NewlinesAlone ==
    Collected =>
        /\ Cardinality(GotOf(tokenNL)) = Count(input, nl)
        /\ \A i \in GotOf(tokenNL) : IsSingle(i, nl)
        /\ \A i \in GotOf(tokenTab) : IsSingle(i, tab)
        /\ \A i \in 1..Len(got) : got[i].typ # tokenNL => Count(got[i].value, nl) = 0
        /\ \A i \in 1..Len(got) :
              HasTab(got[i].value) /\ got[i].typ # tokenTab =>
                  /\ got[i].typ = tokenSpace
                  /\ got[i].value[1] # tab

\* The input is a space and a tab, and the lexer has sent them as one Space
\* token of length 2.
TabInSpaceToken ==
    /\ Collected /\ input = <<32, tab>>
    /\ Len(got) = 2 /\ got[1].typ = tokenSpace /\ got[1].value = <<32, tab>>
    /\ got[1].len = 2

\* The class of a code point in the lexer: the tab and the line feed, which
\* are tokens of their own, the spaces, the hyphens, and the rest.
HyphenClass(r) == isHyphen(key(r))
TextClass(r) == ~isSpace(key(r)) /\ ~isHyphen(key(r)) /\ key(r) \notin {tokenNL, tokenCR}

SpaceOrTab(r) == isSpace(key(r))

AllText(p) == \A i \in 1..Len(Runes(p)) : TextClass(Runes(p)[i])
AllSpace(p) == \A i \in 1..Len(Runes(p)) : SpaceClass(Runes(p)[i])
AllSpaceOrTab(p) == \A i \in 1..Len(Runes(p)) : SpaceOrTab(Runes(p)[i])
AllHyphen(p) == \A i \in 1..Len(Runes(p)) : HyphenClass(Runes(p)[i])

\* Tokens i and i+1 of got are two Text, two Space or two Hyphen tokens.
SameKindAdjacent(i) ==
    /\ got[i].typ \in {tokenText, tokenSpace, tokenHyphen}
    /\ got[i + 1].typ = got[i].typ

\* C28: a Space token is a maximal run of code points of the space class, a
\* Hyphen token a maximal run of hyphens and a Text token a maximal run of
\* other code points: each token holds code points of its class only, and no
\* two adjacent tokens are both Text, both Space or both Hyphen.
C28_MaximalRuns ==
    Collected =>
        /\ \A i \in GotOf(tokenText) : AllText(got[i].value)
        /\ \A i \in GotOf(tokenSpace) : AllSpace(got[i].value)
        /\ \A i \in GotOf(tokenHyphen) : AllHyphen(got[i].value)
        /\ \A i \in 1..(Len(got) - 1) : ~SameKindAdjacent(i)

\* What the code does keep: Text and Hyphen tokens hold code points of
\* their class only, a Space token holds spaces and tabs only, and two
\* adjacent tokens of one kind are tokens that a carriage return of the
\* input stands between.
RunsUpToCR ==
    Collected =>
        /\ \A i \in GotOf(tokenText) : AllText(got[i].value)
        /\ \A i \in GotOf(tokenSpace) : AllSpaceOrTab(got[i].value)
        /\ \A i \in GotOf(tokenHyphen) : AllHyphen(got[i].value)
        /\ \A i \in 1..(Len(got) - 1) :
              SameKindAdjacent(i) =>
                  /\ got[i + 1].pos > EndOf(i)
                  /\ \A k \in (EndOf(i) + 1)..got[i + 1].pos : input[k] = cr

\* The input is a, a carriage return and a, and the lexer has sent two Text
\* tokens one after the other.
AdjacentText ==
    /\ Collected /\ input = <<97, cr, 97>>
    /\ Len(got) = 3 /\ got[1].typ = tokenText /\ got[2].typ = tokenText
    /\ got[1].value = <<97>> /\ got[2].value = <<97>>

\* C29: every token before EOF has len equal to the number of code points
\* of its value, a value that is not empty and that is the bytes of the
\* input from pos on; the EOF token has len 0, an empty value and pos equal
\* to the length of the input in bytes.
C29_TokenFields ==
    \A i \in 1..Len(got) :
        IF got[i].typ = tokenEOF
        THEN got[i].len = 0 /\ got[i].value = <<>> /\ got[i].pos = Len(input)
        ELSE /\ got[i].len = Len(Runes(got[i].value))
             /\ got[i].value # <<>>
             /\ got[i].value = Slice(input, got[i].pos, got[i].pos + Len(got[i].value))

\* The lexer has sent a Text token of two code points, a Space token that is
\* the one code point U+2001 in three bytes, and the EOF token.
C29_Witness ==
    /\ Collected /\ Len(got) = 3
    /\ got[1].typ = tokenText /\ got[1].len = 2 /\ got[1].value = <<97, 97>>
    /\ got[2].typ = tokenSpace /\ got[2].len = 1 /\ Len(got[2].value) = 3
    /\ got[2].pos = 2
    /\ got[3] = Token(tokenEOF, 5, 0, <<>>)

-----------------------------------------------------------------------------
(* SpecLive: the lexer goroutine under fair scheduling.  Its reader is     *)
(* collect() of the lexer test or the loop of Wrapper.Bytes.  The goroutine *)
(* takes a step in the end whenever it can take one, and so does the loop   *)
(* of collect(); nothing is assumed of the caller of Bytes.                *)

\* Either the lexer test has started a lexer on an input of up to MaxLen code
\* points, or a Wrapper of Length MaxReuseLen waits for its call.
InitLive ==
    \/ /\ input \in InputsOver(Alphabet, MaxLen)
       /\ lexer = lex(input)
       /\ tokens = <<>>
       /\ closed = FALSE
       /\ emitted = <<>>
       /\ got = <<>>
       /\ cp = 0
       /\ NoWrapper
       /\ NoWrap
    \/ Init /\ w.Length = MaxReuseLen

\* collect() reads the lexer that the test started.
CollectLive == pc = "idle" /\ Collect

\* Bytes is called on the Wrapper when no lexer was started by a test.
CallLive ==
    \E s \in InputsOver(ReuseAlphabet, MaxLen) :
        lexer.state = "none" /\ calls = <<>> /\ pc = "idle" /\ BytesCall(s)

\* A step of the goroutine run(): a state function, a send, or the close.
LexerStep ==
    \/ RunLexText
    \/ RunLexCR
    \/ RunLexNL
    \/ RunLexTab
    \/ RunLexSpace
    \/ RunLexHyphen
    \/ Send
    \/ Close

NextLive ==
    \/ CallLive
    \/ LexerStep
    \/ CollectLive
    \/ BytesReturn
    \/ BytesSkipSpace
    \/ BytesNL
    \/ BytesWrap

SpecLive ==
    /\ InitLive
    /\ [][NextLive]_vars
    /\ WF_vars(LexerStep)
    /\ WF_vars(CollectLive)

\* lex() has started the goroutine; it has closed the channel and returned.
Started == lexer.state # "none"
Exited == lexer.state = "exited" /\ closed

\* The tokens the goroutine has sent or is about to send.
Produced == emitted \o lexer.out

\* C30: every state function makes progress (each one but lexText consumes
\* input, lexText consumes input or hands over to another state function or
\* ends the scan); EOF is emitted once and last, and the channel is closed
\* only after it; read by collect(), the goroutine closes the channel and
\* exits; and when Bytes has returned the goroutine is not waiting on a
\* send, and it closes the channel and exits.
C30_Terminates ==
    /\ [][Started /\ lexer.out = <<>> /\ lexer.state \notin {"nil", "exited"}
            /\ lexer' # lexer =>
               IF lexer.state = "lexText"
               THEN lexer'.pos > lexer.pos \/ lexer'.state # "lexText"
               ELSE lexer'.pos > lexer.pos /\ lexer'.state = "lexText"]_vars
    /\ [](/\ \A i \in 1..Len(Produced) :
                Produced[i].typ = tokenEOF => i = Len(Produced)
          /\ lexer.state \in {"nil", "exited"} =>
                Produced # <<>> /\ Produced[Len(Produced)].typ = tokenEOF
          /\ closed => lexer.out = <<>> /\ lexer.state = "exited")
    /\ (Started /\ pc = "idle") ~> Exited
    /\ (Started /\ pc = "done") ~> Exited
    /\ [](pc = "done" /\ Started =>
             lexer.out = <<>> /\ lexer.state \in {"nil", "exited"})

\* Bytes has returned on an input of three tokens and EOF, more than the
\* channel holds, and the goroutine has closed the channel and exited.
C30_Witness ==
    /\ pc = "done" /\ Exited
    /\ Len(emitted) = 4 /\ emitted[4].typ = tokenEOF
    /\ tokens = <<>> /\ lexer.out = <<>>

-----------------------------------------------------------------------------
(* The lexer goroutine and the loop of Bytes over the channel (Spec).      *)

IsPrefix(p, q) == Len(p) <= Len(q) /\ SubSeq(q, 1, Len(p)) = p

\* The tokens nextToken has returned to Bytes so far: the ones sent that are
\* no longer in the channel.
Received == SubSeq(emitted, 1, Len(emitted) - Len(tokens))

\* The tokens of a synchronous scan of the input.
SyncTokens == lexRun(lex(input))

\* The loop of Bytes run on its own over the tokens received so far.
SyncLoop == BytesOf(FreshAs(w, w.CommentStyle), Received)

\* C31: under every interleaving the channel holds at most 2 tokens, the
\* ones sent last and in the order sent; the tokens sent are the tokens of
\* the synchronous scan in its order; the Wrapper is, after every step, what
\* the loop of Bytes makes of the tokens received so far, each taken once
\* in the order sent; so the output is that of the synchronous run, and the
\* call panics only if the synchronous run does.
C31_Pipeline ==
    /\ Len(tokens) <= ChanCap
    /\ Len(tokens) <= Len(emitted)
    /\ tokens = SubSeq(emitted, Len(emitted) - Len(tokens) + 1, Len(emitted))
    /\ pc # "idle" /\ input # <<>> =>
          /\ IsPrefix(emitted \o lexer.out, SyncTokens)
          /\ w.b = SyncLoop.w.b
          /\ w.l = SyncLoop.w.l
          /\ (pc = "panic") = SyncLoop.panic
          /\ Received # <<>> => tkn.pos = Received[Len(Received)].pos
          /\ pc = "done" =>
                /\ Received = SyncTokens
                /\ Output = BytesOf(FreshAs(w, w.CommentStyle), SyncTokens).w.b

\* The channel is full and the goroutine waits with its next token while
\* Bytes has written the first token it received.
C31_Witness ==
    /\ pc = "loop" /\ Len(tokens) = ChanCap /\ lexer.out # <<>>
    /\ Len(Received) = 1 /\ w.b = Received[1].value

-----------------------------------------------------------------------------
(* The setters of Wrapper called in any order (SpecIndent).                *)

MaxSetterCalls == 3
SetterTabSizes == {1, 2, 4}
SetterIndentTexts == {<<>>, <<32>>, <<tab>>, <<tab, 32>>}

InitIndent ==
    /\ w = New
    /\ tkn = ZeroToken
    /\ pc = "idle"
    /\ ev = NoEvent
    /\ calls = <<>>
    /\ input = <<>>
    /\ got = <<>>
    /\ cp = 0
    /\ NoLex
    /\ NoWrap

\* The caller calls w.TabSize(i).
CallTabSize ==
    \E i \in SetterTabSizes :
        /\ Len(calls) < MaxSetterCalls
        /\ w' = TabSize(w, i)
        /\ calls' = Append(calls, [set |-> "TabSize", i |-> i])
        /\ UNCHANGED <<input, got, cp, lexVars, tkn, pc, ev, wrapVars>>

\* The caller calls w.IndentText(s).
CallIndentText ==
    \E s \in SetterIndentTexts :
        /\ Len(calls) < MaxSetterCalls
        /\ w' = IndentText(w, s)
        /\ calls' = Append(calls, [set |-> "IndentText", s |-> s])
        /\ UNCHANGED <<input, got, cp, lexVars, tkn, pc, ev, wrapVars>>

NextIndent ==
    \/ CallTabSize
    \/ CallIndentText

SpecIndent == InitIndent /\ [][NextIndent]_vars

\* The width of an indent text: one for each byte that is no tab, the tab
\* size for each tab.
ByteWidth(p, tabSize) ==
    Len(p) + (tabSize - 1) * Cardinality({i \in DOMAIN p : p[i] = tab})

\* C32: after any sequence of TabSize and IndentText calls indentLen is the
\* width of the indent text under the tab size, and 0 for no indent text.
C32_IndentWidth ==
    /\ w.indentLen = ByteWidth(w.indentText, w.tabSize)
    /\ w.indentText = <<>> => w.indentLen = 0

\* What holds: indentLen is right after every IndentText call, and it is 0
\* while there is no indent text.
IndentWidthAfterIndentText ==
    /\ calls # <<>> /\ calls[Len(calls)].set = "IndentText" =>
          w.indentLen = ByteWidth(w.indentText, w.tabSize)
    /\ w.indentText = <<>> => w.indentLen = 0

\* IndentText(" ") and then TabSize(2): the indent text is one column wide
\* and indentLen is 2.
IndentWidthDoubled ==
    /\ Len(calls) = 2
    /\ calls[1] = [set |-> "IndentText", s |-> <<32>>]
    /\ calls[2] = [set |-> "TabSize", i |-> 2]
    /\ w.indentText = <<32>> /\ w.indentLen = 2

\* The other half, under SpecWrapReuse: in the loop of a Bytes call of Wrap
\* that indents, indentLen is the width of IndentVal.
WrapIndentWidth ==
    wpc = "loop" /\ wr.Indent => wr.indentLen = ByteWidth(wr.IndentVal, wr.TabSize)

\* It is on the first call of a Wrap.
WrapIndentWidthFirstCall ==
    wpc = "loop" /\ wr.Indent /\ calls = <<>> =>
        wr.indentLen = ByteWidth(wr.IndentVal, wr.TabSize)

-----------------------------------------------------------------------------
(* The indent text after a break (Spec, NoComment, with indent text).      *)

Indenting == w.CommentStyle = "NoComment" /\ w.indentText # <<>>

\* The bytes of b that follow position i, as many as the indent text has.
AfterBreak(b, i, n) == SubSeq(b, i + 1, IF i + n <= Len(b) THEN i + n ELSE Len(b))

\* C33: with indent text and no comment style, the first line of the output
\* is the values of the tokens and nothing else, every '\n' of the output
\* is followed immediately by the indent text, and the iteration that
\* wrote a break leaves column at indentLen plus what it wrote after.
C33_IndentAfterBreak ==
    /\ pc = "loop" /\ Indenting /\ (\A i \in DOMAIN w.b : w.b[i] # nl) =>
          w.b = ValuesOf(Received, {tokenText, tokenHyphen, tokenSpace, tokenTab})
    /\ pc = "loop" /\ Indenting /\ ev.kind \in {"nl", "wrap"} /\ ev.broke =>
          w.l = w.indentLen + (IF ev.wrote THEN ev.tok.len ELSE 0)
    /\ Returned /\ Indenting =>
          \A i \in DOMAIN Output :
              Output[i] = nl => AfterBreak(Output, i, Len(w.indentText)) = w.indentText

\* What holds: the iteration that writes a break writes the indent text
\* directly after it, and column counts it.
IndentWrittenAtBreak ==
    pc = "loop" /\ Indenting /\ ev.kind \in {"nl", "wrap"} /\ ev.broke =>
        /\ w.l = w.indentLen + (IF ev.wrote THEN ev.tok.len ELSE 0)
        /\ EndsWith(w.b, <<nl>> \o w.indentText
                         \o (IF ev.wrote THEN ev.tok.value ELSE <<>>))

\* "\n \n" with indent text " ": the second nl() retracts the length of the
\* skipped Space token and with it the indent of the first break.
IndentRetracted ==
    /\ Returned /\ Indenting /\ w.indentText = <<32>>
    /\ input = <<nl, 32, nl>>
    /\ Output = <<nl, nl, 32>>

-----------------------------------------------------------------------------
(* Where wrap() breaks (Spec).                                             *)

\* The iteration just done called nl() from wrap(): the token did not fit.
WidthBreak == ev.kind = "wrap" /\ ev.broke

\* C34: a break written by the width test comes directly after a Space run
\* or a Hyphen run (the Space run that triggers it and is dropped counts),
\* never between a Text token and the Hyphen or Text token after it.
C34_BreakPositions ==
    WidthBreak =>
        /\ \/ ev.tok.typ = tokenSpace
           \/ w.priorToken.typ \in {tokenSpace, tokenHyphen}
        /\ ~(w.priorToken.typ = tokenText /\ ev.tok.typ \in {tokenHyphen, tokenText})

\* Length 2, "a-": the hyphen does not fit after the word and starts the
\* next line.
HyphenStartsLine ==
    /\ Returned /\ w.Length = 2 /\ w.CommentStyle = "NoComment" /\ w.indentText = <<>>
    /\ input = <<97, 45>>
    /\ Output = <<97, nl, 45>>

\* Length 2, "a\ra": the carriage return ends the Text token, and the break
\* comes between the two Text tokens.
BreakBetweenTexts ==
    /\ Returned /\ w.Length = 2 /\ w.CommentStyle = "NoComment" /\ w.indentText = <<>>
    /\ input = <<97, cr, 97>>
    /\ Output = <<97, nl, 97>>

\* What holds: wrap() breaks before the token that does not fit, whatever
\* the token before it was, and for no other reason.
BreakBeforeOverflow ==
    ev.kind = "wrap" => (ev.broke <=> ev.col + ev.tok.len >= ev.Length)

-----------------------------------------------------------------------------
(* What wrap() does with the token that did not fit (Spec).                *)

\* The token of the iteration was written at the start of the new line.
WrittenOnNewLine ==
    /\ EndsWith(w.b, <<nl>> \o LinePrefix(w) \o ev.tok.value)
    /\ w.l = LinePrefixWidth(w) + ev.tok.len

\* C35: the token that triggers a width break is dropped if and only if it
\* is a Space run; a Text, Hyphen or Tab token is written at the start of
\* the new line, after the indent or prefix, and column counts its width.
C35_DropOnlySpace ==
    WidthBreak /\ pc = "loop" =>
        /\ ~ev.wrote <=> ev.tok.typ = tokenSpace
        /\ ev.tok.typ \in {tokenText, tokenHyphen, tokenTab} => WrittenOnNewLine

\* What holds: the token is dropped if and only if isSpace says so, which
\* it does for Space and for Tab; Text and Hyphen are written.
DropWhatIsSpace ==
    WidthBreak /\ pc = "loop" =>
        /\ ~ev.wrote <=> isSpace(ev.tok.typ)
        /\ ev.tok.typ \in {tokenText, tokenHyphen} => WrittenOnNewLine

\* Length 3, tab size 2, "a\t": the tab does not fit, the break is written
\* and the tab is not.
TabDropped ==
    /\ Returned /\ w.Length = 3 /\ w.CommentStyle = "NoComment" /\ w.indentText = <<>>
    /\ input = <<97, tab>>
    /\ Output = <<97, nl>>

-----------------------------------------------------------------------------
(* Breaks on a line that holds nothing yet (Spec).                         *)

\* The output b ends in a line that holds nothing, or nothing but the
\* indent text or the comment prefix.
BareLine(x, b) ==
    \/ b = <<>>
    \/ x.CommentStyle \in {"CPPComment", "ShellComment"} /\ b = LinePrefix(x)
    \/ EndsWith(b, <<nl>> \o LinePrefix(x))

\* The output as it was before the iteration that has just been done, when
\* that iteration cut nothing from it.
OutputBefore == SubSeq(w.b, 1, ev.blen)

\* C38: wrap() writes no break while the line holds nothing, or only the
\* indent text or the comment prefix: a token of Length or more at the
\* start of a line gets no blank line before it.
C38_NoBreakOnBareLine ==
    WidthBreak /\ pc = "loop" /\ ev.cut = 0 => ~BareLine(w, OutputBefore)

\* Length 2, "aa": the first token of the input does not fit, and the
\* output starts with a break.
BreakBeforeFirstToken ==
    /\ Returned /\ w.Length = 2 /\ w.CommentStyle = "NoComment" /\ w.indentText = <<>>
    /\ input = <<97, 97>>
    /\ Output = <<nl, 97, 97>>

\* Length 2, "aa-": the hyphen does not fit on the new line either, and the
\* break before it leaves a second line that holds only the word.
BreakAfterEveryLongToken ==
    /\ Returned /\ w.Length = 2 /\ w.CommentStyle = "NoComment" /\ w.indentText = <<>>
    /\ input = <<97, 97, 45>>
    /\ Output = <<nl, 97, 97, nl, 45>>

-----------------------------------------------------------------------------
(* Wrapping the output again (Spec, NoComment).                            *)

\* w.String(s) on the Wrapper of the call as it is after Reset(): the scan
\* of s and the loop of Bytes over its tokens.
WrapAgain(s) == BytesOf(FreshAs(w, "NoComment"), lexRun(lex(s)))

\* C39: wrapping the output of a call again, with the same Length, tab size
\* and indent text on the reset Wrapper, returns the same text.
C39_Idempotent ==
    Returned /\ w.CommentStyle = "NoComment" /\ Output # <<>> =>
        /\ ~WrapAgain(Output).panic
        /\ WrapAgain(Output).w.b = Output

\* Length 2, "aa": the output is "\naa", and wrapping it again puts a second
\* break before the word.
SecondBreakOnRewrap ==
    /\ Returned /\ w.Length = 2 /\ w.CommentStyle = "NoComment" /\ w.indentText = <<>>
    /\ input = <<97, 97>>
    /\ Output = <<nl, 97, 97>>
    /\ WrapAgain(Output).w.b = <<nl, nl, 97, 97>>

\* Length 3, tab size 2, "a\t ": the tab is dropped at the break and the
\* space starts the new line; wrapped again, the space follows a NewLine
\* token and is skipped.
LeadingSpaceLostOnRewrap ==
    /\ Returned /\ w.Length = 3 /\ w.CommentStyle = "NoComment" /\ w.indentText = <<>>
    /\ input = <<97, tab, 32>>
    /\ Output = <<97, nl, 32>>
    /\ WrapAgain(Output).w.b = <<97, nl>>

-----------------------------------------------------------------------------
(* The whitespace chunks of Wrap.Bytes (SpecWrap).                         *)

\* An iteration of Bytes' loop for a whitespace chunk is taken.
SpaceStep == wpc = "loop" /\ ~wr.space /\ wr' # wr

\* What a newline of the input is written as: NewLine, and IndentVal after
\* it when writeNewLine writes it.
ChunkBreak(x) ==
    IF x.Unwrappable THEN x.NewLine
    ELSE x.NewLine \o (IF x.Indent THEN x.IndentVal ELSE <<>>)

\* The chunk p up to its last newline, each newline written as brk.
RECURSIVE UpToLastNL(_, _)
UpToLastNL(p, brk) ==
    IF Count(p, lf) = 0 THEN <<>>
    ELSE IF Head(p) = lf THEN brk \o UpToLastNL(Tail(p), brk)
    ELSE <<Head(p)>> \o UpToLastNL(Tail(p), brk)

\* The chunk p after its last newline.
RECURSIVE AfterLastNL(_)
AfterLastNL(p) ==
    IF Count(p, lf) = 0 THEN p ELSE AfterLastNL(Tail(p))

\* C36: a whitespace chunk with a newline has the whitespace before each of
\* its newlines written as it is (without '\r'), whatever the column, and
\* gets one break for each of its newlines and no other; a chunk without
\* a newline with l + its length >= Length gets exactly one break, written
\* before anything of the chunk.
C36_Spillover ==
    [][SpaceStep =>
          LET chunk == WithoutCR(ChunkRead) IN
          /\ StartsWith(wr'.buf, wr.buf)
          /\ Count(chunk, lf) > 0 =>
                /\ Count(Written, lf) = Count(chunk, lf)
                /\ StartsWith(Written, UpToLastNL(chunk, ChunkBreak(wr)))
                /\ Written \in {UpToLastNL(chunk, ChunkBreak(wr)) \o t :
                                   t \in {<<>>, AfterLastNL(chunk)}}
          /\ Count(chunk, lf) = 0 /\ wr.l + Len(chunk) >= wr.Length =>
                /\ Count(Written, lf) = 1
                /\ StartsWith(Written, wr.newLine)
                /\ Written \in {wr.newLine \o t : t \in {chunk, wr.IndentVal}}]_vars

\* Length 2, "a \n": the space is written after "a" although the line
\* reaches Length with it, and the only break is the one of the newline.
C36_Witness ==
    /\ wpc = "loop" /\ wr.space /\ wr.Length = 2 /\ ~wr.Indent /\ ~wr.Unwrappable
    /\ wr.NewLine = <<lf>>
    /\ input = <<97, 32, lf>>
    /\ wr.buf = <<97, 32, lf>>

-----------------------------------------------------------------------------
(* The earlier Wrapper of part_003 with the first lexer of part_001         *)
(* (newLexer).  Names of the first lexer carry the suffix 1, names of      *)
(* part_003 the suffix 3.  In this specification lexer is the lexer struct  *)
(* with two more fields, run and nt: the execution of run() in the         *)
(* goroutine and the execution of a state function by nextToken() in the   *)
(* caller.  An execution is [fn, at, tk]: the state function it is in, the  *)
(* place in it, the token of the send it is at.  Both executions read and  *)
(* write pos, start, width and runeCnt with no synchronisation; each       *)
(* call of next, peek, backup, ignore, each evaluation of a token and each  *)
(* send is taken as one step, and the steps interleave in any order.       *)

\* The token types of the first const block (iota from tokenError).
tokenError1 == 0
tokenEOF1 == 1
tokenText1 == 2
tokenNL1 == 3
tokenCR1 == 4
tokenTab1 == 5
tokenSpace1 == 7
tokenIdeographicSpace1 == 23
tokenHyphenMinus1 == 24
tokenFullWidthHyphenMinus1 == 42

\* The entries of the first key map for the code points of EarlyAlphabet.
keyTable1 ==
    { <<10, tokenNL1>>, <<13, tokenCR1>>, <<9, tokenTab1>>,
      <<32, tokenSpace1>>, <<45, tokenHyphenMinus1>> }

keyOk1(r) == \E e \in keyTable1 : e[1] = r
key1(r) == (CHOOSE e \in keyTable1 : e[1] = r)[2]

isSpace1(t) == t >= tokenSpace1 /\ t <= tokenIdeographicSpace1
isHyphen1(t) == t >= tokenHyphenMinus1 /\ t <= tokenFullWidthHyphenMinus1

Idle == [fn |-> "idle", at |-> "", tk |-> <<>>]
Enter(fn) ==
    [fn |-> fn, tk |-> <<>>,
     at |-> CASE fn = "lexText" -> "peek"
              [] fn = "nil" -> "close"
              [] OTHER -> "enter"]

\* newLexer(input), and `go w.lexer.run()`: run's local state is lexText.
newLexer(in) ==
    [input |-> in, state |-> "lexText", pos |-> 0, start |-> 0, width |-> 0,
     runeCnt |-> 0, run |-> Enter("lexText"), nt |-> Idle]

\* l.next(): <<the lexer after the call, the rune returned>>.
next1(l) ==
    LET l1 == [l EXCEPT !.runeCnt = @ + 1] IN
    IF l1.pos >= Len(l1.input) THEN <<[l1 EXCEPT !.width = 0], eof>>
    ELSE LET d == DecodeRune(Slice(l1.input, l1.pos, Len(l1.input))) IN
         <<[l1 EXCEPT !.width = d[2], !.pos = @ + d[2]], d[1]>>

\* l.backup()
backup1(l) == [l EXCEPT !.pos = @ - l.width, !.runeCnt = @ - 1]

\* l.ignore()
ignore1(l) == [l EXCEPT !.start = l.pos, !.runeCnt = 0]

\* l.peek()
peek1(l) == LET n == next1(l) IN <<backup1(n[1]), n[2]>>

\* l.input[l.start:l.pos] panics when the bounds are out of range.
SliceOk1(l) == l.start <= l.pos /\ l.pos <= Len(l.input)

\* The operand of the send in emit(t).
tokenOf1(l, t) == Token(t, l.start, l.runeCnt, Slice(l.input, l.start, l.pos))

SendLabels == {"sendText", "sendTok", "sendEOF"}
StateFns1 == {"lexText", "lexSpace", "lexHyphen", "lexReturn", "lexNewLine", "lexTab"}

\* A step of a state function that is no send: [l, f, ret, panic].  ret is
\* the state function returned, "" while the function goes on.
Going(l, f) == [l |-> l, f |-> f, ret |-> "", panic |-> FALSE]
Returns(l, fn) == [l |-> l, f |-> Idle, ret |-> fn, panic |-> FALSE]
Emits(l, f, t, at) ==
    IF SliceOk1(l)
    THEN Going(l, [f EXCEPT !.at = at, !.tk = tokenOf1(l, t)])
    ELSE [l |-> l, f |-> f, ret |-> "", panic |-> TRUE]

\* if l.pos > l.start { l.emit(tokenText) }, the first statement of every
\* state function but lexText.
enter1(l, f) ==
    IF l.pos > l.start THEN Emits(l, f, tokenText1, "sendText")
    ELSE Going(l, [f EXCEPT !.at = "body"])

lexText1(l, f) ==
    CASE f.at = "peek" ->
            LET p == peek1(l)
                r == p[2]
            IN  IF r = eof THEN Going(p[1], [f EXCEPT !.at = "end"])
                ELSE IF ~keyOk1(r) THEN Going(p[1], [f EXCEPT !.at = "next"])
                ELSE IF key1(r) = tokenCR1 THEN Returns(p[1], "lexReturn")
                ELSE IF key1(r) = tokenNL1 THEN Returns(p[1], "lexNewLine")
                ELSE IF key1(r) = tokenTab1 THEN Returns(p[1], "lexTab")
                ELSE IF isSpace1(key1(r)) THEN Returns(p[1], "lexSpace")
                ELSE IF isHyphen1(key1(r)) THEN Returns(p[1], "lexHyphen")
                ELSE Going(p[1], [f EXCEPT !.at = "next"])
      [] f.at = "next" -> Going(next1(l)[1], [f EXCEPT !.at = "peek"])
      [] f.at = "end" ->
            IF l.pos > l.start THEN Emits(l, f, tokenText1, "sendText")
            ELSE Emits(l, f, tokenEOF1, "sendEOF")
      [] f.at = "eof" -> Emits(l, f, tokenEOF1, "sendEOF")

lexSpace1(l, f) ==
    CASE f.at = "enter" -> enter1(l, f)
      [] f.at = "body" ->
            LET n == next1(l) IN
            IF keyOk1(n[2]) /\ isSpace1(key1(n[2])) THEN Going(n[1], f)
            ELSE Going(n[1], [f EXCEPT !.at = "backup"])
      [] f.at = "backup" -> Emits(backup1(l), f, tokenSpace1, "sendTok")

lexHyphen1(l, f) ==
    CASE f.at = "enter" -> enter1(l, f)
      [] f.at = "body" ->
            LET n == next1(l) IN
            IF keyOk1(n[2]) /\ isHyphen1(key1(n[2]))
            THEN Emits(n[1], f, key1(n[2]), "sendTok")
            ELSE Going(n[1], [f EXCEPT !.at = "backup"])
      [] f.at = "backup" -> Returns(backup1(l), "lexText")

lexReturn1(l, f) ==
    CASE f.at = "enter" -> enter1(l, f)
      [] f.at = "body" -> Returns(ignore1([l EXCEPT !.pos = @ + 1]), "lexText")

lexNewLine1(l, f) ==
    CASE f.at = "enter" -> enter1(l, f)
      [] f.at = "body" ->
            Emits([l EXCEPT !.pos = @ + 1, !.runeCnt = @ + 1], f, tokenNL1, "sendTok")

lexTab1(l, f) ==
    CASE f.at = "enter" -> enter1(l, f)
      [] f.at = "body" ->
            Emits([l EXCEPT !.pos = @ + 1, !.runeCnt = @ + 1], f, tokenTab1, "sendTok")

\* state(l), one step of it.
Exec(l, f) ==
    CASE f.fn = "lexText" -> lexText1(l, f)
      [] f.fn = "lexSpace" -> lexSpace1(l, f)
      [] f.fn = "lexHyphen" -> lexHyphen1(l, f)
      [] f.fn = "lexReturn" -> lexReturn1(l, f)
      [] f.fn = "lexNewLine" -> lexNewLine1(l, f)
      [] f.fn = "lexTab" -> lexTab1(l, f)

\* emit after its send: l.start = l.pos, l.runeCnt = 0, and what the state
\* function does next.
AfterSend(l, f) ==
    LET l1 == ignore1(l) IN
    CASE f.at = "sendEOF" -> Returns(l1, "nil")
      [] f.at = "sendText" /\ f.fn = "lexText" -> Going(l1, [f EXCEPT !.at = "eof", !.tk = <<>>])
      [] f.at = "sendText" -> Going(l1, [f EXCEPT !.at = "body", !.tk = <<>>])
      [] f.at = "sendTok" /\ f.fn = "lexHyphen" -> Going(l1, [f EXCEPT !.at = "body", !.tk = <<>>])
      [] OTHER -> Returns(l1, "lexText")

\* New() of part_003.
New3 ==
    [Length |-> LineLength, tabSize |-> DefaultTabSize, indentText |-> <<>>,
     indentLen |-> 0, l |-> 0, b |-> <<>>]

\* w.nl() of part_003
nl3(x) ==
    LET x1 == [x EXCEPT !.b = @ \o <<nl>>, !.l = 0] IN
    IF x1.indentLen > 0
    THEN [x1 EXCEPT !.b = @ \o x1.indentText, !.l = @ + x1.indentLen]
    ELSE x1

\* w.wrap(&t) of part_003: [w, t, skip].
wrap3(x, t) ==
    IF t.typ = tokenNL1 THEN [w |-> [x EXCEPT !.l = x.Length], t |-> t, skip |-> TRUE]
    ELSE LET t1 == IF t.typ = tokenTab1 THEN [t EXCEPT !.len = x.tabSize] ELSE t IN
         IF x.l + t1.len < x.Length THEN [w |-> x, t |-> t1, skip |-> FALSE]
         ELSE [w |-> nl3(x), t |-> t1, skip |-> isSpace1(t1.typ)]

\* The code points of the inputs: a, space, tab, \n, \r and -.
EarlyAlphabet == {97, 32, 9, 10, 13, 45}
MaxEarlyLen == 2

InitEarly ==
    /\ w \in {[New3 EXCEPT !.Length = len] : len \in {MaxReuseLen, MaxLength}}
    /\ tkn = ZeroToken
    /\ pc = "idle"
    /\ ev = NoEvent
    /\ calls = <<>>
    /\ input = <<>>
    /\ got = <<>>
    /\ cp = 0
    /\ NoLex
    /\ NoWrap

\* w.Bytes(s) up to its loop: the buffer, newLexer, go w.lexer.run().
BytesCall3 ==
    \E s \in InputsOver(EarlyAlphabet, MaxEarlyLen) :
        /\ pc = "idle" /\ calls = <<>>
        /\ input' = s
        /\ IF Len(s) = 0
           THEN /\ pc' = "done"
                /\ calls' = Append(calls, [in |-> s, b |-> s, err |-> FALSE])
                /\ UNCHANGED <<w, lexer>>
           ELSE /\ pc' = "loop"
                /\ w' = [w EXCEPT !.b = <<>>]
                /\ lexer' = newLexer(s)
                /\ UNCHANGED calls
        /\ UNCHANGED <<tokens, closed, emitted, got, tkn, ev, cp, wrapVars>>

\* The program runs: no goroutine has panicked.
Running == pc \in {"loop", "done"} /\ input # <<>>

\* run(): one step of the state function the goroutine is in.
RunState ==
    /\ Running
    /\ lexer.run.fn \in StateFns1 /\ lexer.run.at \notin SendLabels
    /\ LET r == Exec(lexer, lexer.run) IN
       /\ lexer' = [r.l EXCEPT !.run = IF r.ret # "" THEN Enter(r.ret) ELSE r.f]
       /\ pc' = IF r.panic THEN "panic" ELSE pc
    /\ UNCHANGED <<input, tokens, closed, emitted, got, w, tkn, ev, calls, cp, wrapVars>>

\* run(): the send of emit in the goroutine.
RunSend ==
    /\ Running
    /\ lexer.run.at \in SendLabels
    /\ Len(tokens) < ChanCap
    /\ tokens' = Append(tokens, lexer.run.tk)
    /\ emitted' = Append(emitted, lexer.run.tk)
    /\ LET r == AfterSend(lexer, lexer.run) IN
       lexer' = [r.l EXCEPT !.run = IF r.ret # "" THEN Enter(r.ret) ELSE r.f]
    /\ UNCHANGED <<input, closed, got, w, tkn, pc, ev, calls, cp, wrapVars>>

\* run(): close(l.tokens) after the state function that returned nil.
RunClose ==
    /\ Running
    /\ lexer.run.fn = "nil"
    /\ closed' = TRUE
    /\ lexer' = [lexer EXCEPT !.run.fn = "exit", !.run.at = ""]
    /\ UNCHANGED <<input, tokens, emitted, got, w, tkn, pc, ev, calls, cp, wrapVars>>

\* nextToken(): no token is ready, the default branch calls l.state(l); the
\* call of a nil state function panics.
NtDefault ==
    /\ pc = "loop"
    /\ lexer.nt.fn = "idle"
    /\ tokens = <<>> /\ ~closed
    /\ IF lexer.state = "nil"
       THEN pc' = "panic" /\ UNCHANGED lexer
       ELSE pc' = pc /\ lexer' = [lexer EXCEPT !.nt = Enter(lexer.state)]
    /\ UNCHANGED <<input, tokens, closed, emitted, got, w, tkn, ev, calls, cp, wrapVars>>

\* nextToken(): one step of the state function the caller is in; when it
\* returns, l.state is what it returned.
NtState ==
    /\ pc = "loop"
    /\ lexer.nt.fn \in StateFns1 /\ lexer.nt.at \notin SendLabels
    /\ LET r == Exec(lexer, lexer.nt) IN
       /\ lexer' = IF r.ret # "" THEN [r.l EXCEPT !.state = r.ret, !.nt = Idle]
                   ELSE [r.l EXCEPT !.nt = r.f]
       /\ pc' = IF r.panic THEN "panic" ELSE pc
    /\ UNCHANGED <<input, tokens, closed, emitted, got, w, tkn, ev, calls, cp, wrapVars>>

\* nextToken(): the send of emit in the caller; a send on the channel that
\* run() has closed panics.
NtSend ==
    /\ pc = "loop"
    /\ lexer.nt.at \in SendLabels
    /\ closed \/ Len(tokens) < ChanCap
    /\ IF closed
       THEN pc' = "panic" /\ UNCHANGED <<lexer, tokens, emitted>>
       ELSE /\ pc' = pc
            /\ tokens' = Append(tokens, lexer.nt.tk)
            /\ emitted' = Append(emitted, lexer.nt.tk)
            /\ LET r == AfterSend(lexer, lexer.nt) IN
               lexer' = IF r.ret # "" THEN [r.l EXCEPT !.state = r.ret, !.nt = Idle]
                        ELSE [r.l EXCEPT !.nt = r.f]
    /\ UNCHANGED <<input, closed, got, w, tkn, ev, calls, cp, wrapVars>>

\* token := <-l.tokens: the head of the channel, the zero token from the
\* closed and empty channel.
Receivable == lexer.nt.fn = "idle" /\ (tokens # <<>> \/ closed)
Received3 == IF tokens # <<>> THEN Head(tokens) ELSE Token(tokenError1, 0, 0, <<>>)

\* The iteration of Bytes that receives tokenEOF or tokenError.
BytesReturn3 ==
    /\ pc = "loop"
    /\ Receivable
    /\ Received3.typ \in {tokenEOF1, tokenError1}
    /\ pc' = "done"
    /\ calls' = Append(calls, [in |-> input,
                               b |-> IF Received3.typ = tokenEOF1 THEN w.b ELSE <<>>,
                               err |-> Received3.typ = tokenError1])
    /\ got' = Append(got, Received3)
    /\ tkn' = Received3
    /\ tokens' = IF tokens # <<>> THEN Tail(tokens) ELSE tokens
    /\ UNCHANGED <<input, lexer, closed, emitted, w, ev, cp, wrapVars>>

\* Every other iteration: skip := w.wrap(&token), then the token is
\* appended unless skip.
BytesWrap3 ==
    /\ pc = "loop"
    /\ Receivable
    /\ Received3.typ \notin {tokenEOF1, tokenError1}
    /\ LET r == wrap3(w, Received3) IN
       /\ w' = IF r.skip THEN r.w
               ELSE [r.w EXCEPT !.b = @ \o r.t.value, !.l = @ + r.t.len]
       /\ tkn' = r.t
    /\ got' = Append(got, Received3)
    /\ tokens' = Tail(tokens)
    /\ UNCHANGED <<input, lexer, closed, emitted, pc, ev, calls, cp, wrapVars>>

NextEarly ==
    \/ BytesCall3
    \/ RunState
    \/ RunSend
    \/ RunClose
    \/ NtDefault
    \/ NtState
    \/ NtSend
    \/ BytesReturn3
    \/ BytesWrap3

SpecEarly == InitEarly /\ [][NextEarly]_vars

\* The tokens of run() on its own, with a reader that takes every token:
\* the steps of the state functions from execution f on, out sent so far.
RECURSIVE syncRun(_, _, _)
syncRun(l, f, out) ==
    IF f.fn = "nil" THEN out
    ELSE IF f.at \in SendLabels
    THEN LET r == AfterSend(l, f) IN
         syncRun(r.l, IF r.ret # "" THEN Enter(r.ret) ELSE r.f, Append(out, f.tk))
    ELSE LET r == Exec(l, f) IN
         syncRun(r.l, IF r.ret # "" THEN Enter(r.ret) ELSE r.f, out)

SyncScan(s) == syncRun(newLexer(s), Enter("lexText"), <<>>)

\* An execution is inside a state function.
InStateFn(f) == f.fn \in StateFns1

\* An execution waits at a send and the channel is full.
BlockedOnSend(f) == f.at \in SendLabels /\ Len(tokens) = ChanCap /\ ~closed

\* C37: under every interleaving no two executions of state functions go on
\* at once, nothing panics (no nil state function is called, no send on the
\* closed channel), no send waits on a full channel that nobody reads, and
\* when Bytes has returned it returned no error and received the tokens of
\* the synchronous scan.
C37_EarlyPipeline ==
    /\ pc # "panic"
    /\ Running =>
        /\ ~(InStateFn(lexer.nt) /\ InStateFn(lexer.run))
        /\ ~(BlockedOnSend(lexer.nt) /\ (BlockedOnSend(lexer.run) \/ lexer.run.fn = "exit"))
        /\ pc = "done" => ~calls[1].err /\ got = SyncScan(input)

\* The same without the first clause: what the race leads to.
EarlyOutcome ==
    /\ pc # "panic"
    /\ Running =>
        /\ ~(BlockedOnSend(lexer.nt) /\ BlockedOnSend(lexer.run))
        /\ pc = "done" => ~calls[1].err /\ got = SyncScan(input)

\* "a": both executions scan, the goroutine sends Text and EOF and closes
\* the channel, and the caller's lexText sends its EOF on the closed channel.
SendOnClosed ==
    pc = "panic" /\ input = <<97>> /\ closed /\ lexer.nt.at = "sendEOF"

\* The caller waits at a send in nextToken, the goroutine waits at a send,
\* the channel is full and its only reader is the caller.
BothBlocked ==
    pc = "loop" /\ BlockedOnSend(lexer.nt) /\ BlockedOnSend(lexer.run)

\* Bytes returns with tokens that are not those of the synchronous scan.
TokensDiffer ==
    pc = "done" /\ input # <<>> /\ ~calls[1].err /\ got # SyncScan(input)

\* What holds: nextToken never calls a nil state function, because the EOF
\* token its own lexText sent is still in the channel.
NoNilStateCalled ==
    pc = "loop" /\ lexer.nt.fn = "idle" /\ tokens = <<>> /\ ~closed => lexer.state # "nil"

====
